---- MODULE Spec2Model ----
(***************************************************************************)
(* Model of kernel/src/engine/arrow_utils.rs of delta-kernel-rs: the       *)
(* planner get_requested_indices / get_indices, the column reorderer       *)
(* reorder_struct_array and the null mask repair fix_nested_null_masks.    *)
(***************************************************************************)
EXTENDS Integers, Sequences, FiniteSets, TLC

VARIABLES
    pc,          \* position of the read pipeline for one file
    requested,   \* requested_schema: the logical (kernel) schema, a field list
    parquet,     \* parquet_schema: the physical (arrow) schema, a field list
    planned,     \* result of get_requested_indices
    batch,       \* the decoded batch handed to fixup_parquet_read
    shaped,      \* result of reorder_struct_array
    final,       \* result of fixup_parquet_read
    nb,          \* the struct array handed to fix_nested_null_masks alone
    answer,      \* what ordering_needs_transform returned
    reader       \* the multi-threaded reader: main thread, workers, channels

vars == <<pc, requested, parquet, planned, batch, shaped, final, nb, answer, reader>>

(***************************************************************************)
(* Arrow data types and fields (the physical side).                        *)
(***************************************************************************)
ArrowField(n, t, nl) == [name |-> n, type |-> t, nullable |-> nl]
APrim(t) == [k |-> "prim", t |-> t]
AStruct(fs) == [k |-> "struct", fields |-> fs]
AList(f) == [k |-> "list", field |-> f]
AMap(f, ord) == [k |-> "map", field |-> f, ordered |-> ord]

Int32 == APrim("int32")
Int64 == APrim("int64")
Utf8 == APrim("utf8")
Binary == APrim("binary")
Float32 == APrim("float32")
Float64 == APrim("float64")

(***************************************************************************)
(* Kernel data types and fields (the logical side).                        *)
(***************************************************************************)
StructField(n, t, nl) == [name |-> n, type |-> t, nullable |-> nl]
KPrim(t) == [k |-> "prim", t |-> t]
KStruct(fs) == [k |-> "struct", fields |-> fs]
KVariant(fs) == [k |-> "variant", fields |-> fs]
KArray(e, cn) == [k |-> "array", element_type |-> e, contains_null |-> cn]
KMap(kt, vt, vcn) ==
    [k |-> "map", key_type |-> kt, value_type |-> vt, value_contains_null |-> vcn]

DT_INTEGER == KPrim("integer")
DT_LONG == KPrim("long")
DT_STRING == KPrim("string")
DT_BINARY == KPrim("binary")
DT_FLOAT == KPrim("float")
DT_DOUBLE == KPrim("double")

unshredded_variant ==
    KVariant(<<StructField("metadata", DT_BINARY, FALSE),
               StructField("value", DT_BINARY, FALSE)>>)

(***************************************************************************)
(* Errors.  kind "" is success; name is the text the error message carries *)
(* about the offending field.                                              *)
(***************************************************************************)
NoError == [kind |-> "", name |-> ""]
MkError(kd, n) == [kind |-> kd, name |-> n]

(***************************************************************************)
(* ReorderIndex and its transforms.                                        *)
(***************************************************************************)
ReorderIndex(i, tr) == [index |-> i, transform |-> tr]
ReorderCast(i, target) == ReorderIndex(i, [k |-> "cast", target |-> target])
ReorderNested(i, children) == ReorderIndex(i, [k |-> "nested", children |-> children])
ReorderIdentity(i) == ReorderIndex(i, [k |-> "identity"])
ReorderMissing(i, field) == ReorderIndex(i, [k |-> "missing", field |-> field])

RECURSIVE ordering_needs_transform(_)
needs_transform(ri) ==
    CASE ri.transform.k \in {"cast", "missing"} -> TRUE
      [] ri.transform.k = "nested" -> ordering_needs_transform(ri.transform.children)
      [] OTHER -> FALSE

OutOfOrderFlipped(a, b) == a.index <= b.index

OutOfOrderStrict(a, b) == a.index > b.index

\* ri[0].index >= ri[1].index
OutOfOrder(a, b) == a.index >= b.index

ordering_needs_transform(requested_ordering) ==
    IF requested_ordering = <<>> THEN FALSE
    ELSE IF needs_transform(requested_ordering[1]) THEN TRUE
    ELSE \E i \in 1..(Len(requested_ordering) - 1) :
            \/ OutOfOrder(requested_ordering[i], requested_ordering[i + 1])
            \/ needs_transform(requested_ordering[i + 1])

(***************************************************************************)
(* count_cols: the number of leaf columns below an arrow field.            *)
(***************************************************************************)
RECURSIVE _count_cols(_)
RECURSIVE SumCols(_, _)
SumCols(fs, i) ==
    IF i > Len(fs) THEN 0 ELSE _count_cols(fs[i].type) + SumCols(fs, i + 1)

_count_cols(dt) ==
    CASE dt.k = "struct" -> SumCols(dt.fields, 1)
      [] dt.k \in {"list", "map"} -> _count_cols(dt.field.type)
      [] OTHER -> 1

count_cols(field) == _count_cols(field.type)

(***************************************************************************)
(* validate_parquet_variant: TRUE iff the field passes.                    *)
(***************************************************************************)
VariantNamesUnchecked(fields) == TRUE

\* the names of the two fields, in either order
VariantNamesOk(fields) ==
    <<fields[1].name, fields[2].name>> \in
        {<<"value", "metadata">>, <<"metadata", "value">>}

validate_parquet_variant(field) ==
    IF field.type.k = "struct"
    THEN IF Len(field.type.fields) # 2 THEN FALSE
         ELSE VariantNamesOk(field.type.fields)
    ELSE FALSE

(***************************************************************************)
(* ensure_data_types on a non-nested arrow type, and the conversion of a   *)
(* kernel field to an arrow field (both live in sibling modules of the     *)
(* engine).                                                                *)
(***************************************************************************)
KernelPrimToArrow(t) ==
    CASE t = "integer" -> Int32
      [] t = "long" -> Int64
      [] t = "string" -> Utf8
      [] t = "float" -> Float32
      [] t = "double" -> Float64
      [] OTHER -> Binary

SafeWiden == {<<"int32", "int64">>, <<"float32", "float64">>}

ensure_data_types(kernel_type, arrow_type) ==
    IF kernel_type.k = "prim" /\ arrow_type.k = "prim"
    THEN LET target == KernelPrimToArrow(kernel_type.t)
         IN  IF target = arrow_type
             THEN [err |-> NoError, compat |-> "identical", target |-> target]
             ELSE IF <<arrow_type.t, target.t>> \in SafeWiden
             THEN [err |-> NoError, compat |-> "needs_cast", target |-> target]
             ELSE [err |-> MkError("incorrect_datatype", ""),
                   compat |-> "", target |-> target]
    ELSE [err |-> MkError("incorrect_datatype", ""), compat |-> "",
          target |-> arrow_type]

RECURSIVE try_into_arrow_type(_)
RECURSIVE try_into_arrow_fields(_, _)
try_into_arrow(field) ==
    ArrowField(field.name, try_into_arrow_type(field.type), field.nullable)

try_into_arrow_fields(fs, i) ==
    IF i > Len(fs) THEN <<>>
    ELSE <<try_into_arrow(fs[i])>> \o try_into_arrow_fields(fs, i + 1)

try_into_arrow_type(t) ==
    CASE t.k = "prim" -> KernelPrimToArrow(t.t)
      [] t.k \in {"struct", "variant"} -> AStruct(try_into_arrow_fields(t.fields, 1))
      [] t.k = "array" ->
            AList(ArrowField("element", try_into_arrow_type(t.element_type),
                             t.contains_null))
      [] OTHER ->
            AMap(ArrowField("key_value",
                    AStruct(<<ArrowField("key", try_into_arrow_type(t.key_type), FALSE),
                              ArrowField("value", try_into_arrow_type(t.value_type),
                                         t.value_contains_null)>>),
                    FALSE), FALSE)

as_struct_schema(map_type, key_name, val_name) ==
    <<StructField(key_name, map_type.key_type, FALSE),
      StructField(val_name, map_type.value_type, map_type.value_contains_null)>>

(***************************************************************************)
(* get_indices.                                                            *)
(***************************************************************************)
\* requested_schema.fields.get_full(name): 1-based position, 0 when absent
get_full(requested_schema, name) ==
    IF \E i \in 1..Len(requested_schema) : requested_schema[i].name = name
    THEN CHOOSE i \in 1..Len(requested_schema) : requested_schema[i].name = name
    ELSE 0

Fail(st, e) == [st EXCEPT !.err = e]

\* parquet_offset += parquet_advance - 1
AdvanceNested(parquet_offset, parquet_advance) == parquet_offset + parquet_advance - 1

SkipFieldLeavesOffset(st, field) == st

\* parquet_offset += count_cols(field) - 1, for a field that is not requested
SkipField(st, field) ==
    [st EXCEPT !.parquet_offset = @ + count_cols(field) - 1]

\* the leaf index pushed onto mask_indices
LeafIndex(parquet_offset, parquet_index) == parquet_offset + parquet_index

RECURSIVE get_indices(_, _, _, _)

StructArmPassthrough(st, index, requested_field, field, parquet_index) ==
    IF requested_field.type.k \in {"struct", "variant"}
    THEN LET r == get_indices(parquet_index + st.parquet_offset,
                              requested_field.type.fields,
                              field.type.fields, st.mask_indices)
         IN  IF r.err # NoError THEN Fail(st, r.err)
             ELSE [st EXCEPT
                     !.parquet_offset = AdvanceNested(@, r.advance),
                     !.found_fields = @ \cup {requested_field.name},
                     !.mask_indices = r.mask_indices,
                     !.reorder_indices = Append(@, ReorderIdentity(index))]
    ELSE Fail(st, MkError("unexpected_column_type", field.name))

StructArm(st, index, requested_field, field, parquet_index) ==
    IF requested_field.type.k \in {"struct", "variant"}
    THEN LET r == get_indices(parquet_index + st.parquet_offset,
                              requested_field.type.fields,
                              field.type.fields, st.mask_indices)
         IN  IF r.err # NoError THEN Fail(st, r.err)
             ELSE [st EXCEPT
                     !.parquet_offset = AdvanceNested(@, r.advance),
                     !.found_fields = @ \cup {requested_field.name},
                     !.mask_indices = r.mask_indices,
                     !.reorder_indices = Append(@, ReorderNested(index, r.reorder))]
    ELSE Fail(st, MkError("unexpected_column_type", field.name))

ListChildKeepsInnerIndex(child, index) == child

ListChildWrapped(child, index) == ReorderNested(index, <<child>>)

\* children.index = index
ListChild(child, index) == [child EXCEPT !.index = index]

ListArm(st, index, requested_field, field, parquet_index) ==
    LET list_field == field.type.field IN
    IF requested_field.type.k = "array"
    THEN LET requested_schema ==
                <<StructField(list_field.name, requested_field.type.element_type,
                              requested_field.type.contains_null)>>
             r == get_indices(parquet_index + st.parquet_offset, requested_schema,
                              <<list_field>>, st.mask_indices)
         IN  IF r.err # NoError THEN Fail(st, r.err)
             ELSE IF Len(r.reorder) # 1
             THEN Fail(st, MkError("list_reorder_count", ""))
             ELSE [st EXCEPT
                     !.parquet_offset = AdvanceNested(@, r.advance),
                     !.found_fields = @ \cup {requested_field.name},
                     !.mask_indices = r.mask_indices,
                     !.reorder_indices = Append(@, ListChild(r.reorder[1], index))]
    ELSE Fail(st, MkError("unexpected_column_type", list_field.name))

MapShapeErrorNoUpperCheck(inner_fields) ==
    IF Len(inner_fields) < 1 THEN MkError("map_no_key_col", "")
    ELSE IF Len(inner_fields) < 2 THEN MkError("map_no_val_col", "")
    ELSE NoError

\* the key/value name checks on the entries struct of a map
MapShapeError(inner_fields) ==
    IF Len(inner_fields) < 1 THEN MkError("map_no_key_col", "")
    ELSE IF Len(inner_fields) < 2 THEN MkError("map_no_val_col", "")
    ELSE IF Len(inner_fields) > 2 THEN MkError("map_more_than_2", "")
    ELSE NoError

\* the collapse of the two child plans of a map
MapTransformNeverCollapses(index, children) ==
    ReorderNested(index,
        <<IF ~needs_transform(children[1]) THEN ReorderIdentity(0) ELSE children[1],
          IF ~needs_transform(children[2]) THEN ReorderIdentity(1) ELSE children[2]>>)

MapTransform(index, children) ==
    LET c0 == IF ~needs_transform(children[1]) THEN ReorderIdentity(0) ELSE children[1]
        c1 == IF ~needs_transform(children[2]) THEN ReorderIdentity(1) ELSE children[2]
        num_identity_transforms ==
            (IF ~needs_transform(children[1]) THEN 1 ELSE 0)
          + (IF ~needs_transform(children[2]) THEN 1 ELSE 0)
    IN  IF num_identity_transforms = 2 THEN ReorderIdentity(index)
        ELSE ReorderNested(index, <<c0, c1>>)

MapArm(st, index, requested_field, field, parquet_index) ==
    LET key_val_field == field.type.field IN
    IF key_val_field.type.k = "struct" /\ requested_field.type.k = "map"
    THEN LET inner_fields == key_val_field.type.fields
             shape == MapShapeError(inner_fields)
         IN  IF shape # NoError THEN Fail(st, shape)
             ELSE
             LET inner_schema == as_struct_schema(requested_field.type,
                                    inner_fields[1].name, inner_fields[2].name)
                 r == get_indices(parquet_index + st.parquet_offset, inner_schema,
                                  inner_fields, st.mask_indices)
             IN  IF r.err # NoError THEN Fail(st, r.err)
                 ELSE IF Len(r.reorder) # 2
                 THEN Fail(st, MkError("map_reorder_count", ""))
                 ELSE [st EXCEPT
                         !.parquet_offset = AdvanceNested(@, r.advance),
                         !.found_fields = @ \cup {requested_field.name},
                         !.mask_indices = r.mask_indices,
                         !.reorder_indices = Append(@, MapTransform(index, r.reorder))]
    ELSE Fail(st, MkError("unexpected_column_type", field.name))

PrimitiveArmIdentityOnly(st, index, requested_field, field, parquet_index) ==
    LET c == ensure_data_types(requested_field.type, field.type) IN
    IF c.err # NoError THEN Fail(st, c.err)
    ELSE [st EXCEPT
            !.reorder_indices = Append(@, ReorderIdentity(index)),
            !.found_fields = @ \cup {requested_field.name},
            !.mask_indices = Append(@, LeafIndex(st.parquet_offset, parquet_index))]

PrimitiveArm(st, index, requested_field, field, parquet_index) ==
    LET c == ensure_data_types(requested_field.type, field.type) IN
    IF c.err # NoError THEN Fail(st, c.err)
    ELSE [st EXCEPT
            !.reorder_indices =
                Append(@, IF c.compat = "identical" THEN ReorderIdentity(index)
                          ELSE ReorderCast(index, c.target)),
            !.found_fields = @ \cup {requested_field.name},
            !.mask_indices = Append(@, LeafIndex(st.parquet_offset, parquet_index))]

\* one iteration of the loop over the parquet fields; i is 1-based
WalkField(st, requested_schema, fields, i) ==
    LET field == fields[i]
        parquet_index == i - 1
        pos == get_full(requested_schema, field.name)
    IN  IF pos = 0 THEN SkipField(st, field)
        ELSE
        LET index == pos - 1
            requested_field == requested_schema[pos]
        IN  IF requested_field.type = unshredded_variant
               /\ ~validate_parquet_variant(field)
            THEN Fail(st, MkError("variant_shredded", field.name))
            ELSE CASE field.type.k = "struct" ->
                        StructArm(st, index, requested_field, field, parquet_index)
                   [] field.type.k = "list" ->
                        ListArm(st, index, requested_field, field, parquet_index)
                   [] field.type.k = "map" ->
                        MapArm(st, index, requested_field, field, parquet_index)
                   [] OTHER ->
                        PrimitiveArm(st, index, requested_field, field, parquet_index)

RECURSIVE WalkFields(_, _, _, _)
WalkFields(st, requested_schema, fields, i) ==
    IF i > Len(fields) \/ st.err # NoError THEN st
    ELSE WalkFields(WalkField(st, requested_schema, fields, i),
                    requested_schema, fields, i + 1)

MissingReorderIndexAtFront(requested_position, field) ==
    ReorderMissing(0, try_into_arrow(field))

\* the Missing node for a requested field that was not found
MissingReorderIndex(requested_position, field) ==
    ReorderMissing(requested_position, try_into_arrow(field))

MayBeMissingAlways(field) == TRUE

\* may a requested field that was not found be filled with nulls
MayBeMissing(field) == field.nullable

RECURSIVE AddMissing(_, _, _)
AddMissing(st, requested_schema, i) ==
    IF i > Len(requested_schema) \/ st.err # NoError THEN st
    ELSE LET field == requested_schema[i]
             st2 == IF field.name \in st.found_fields THEN st
                    ELSE IF MayBeMissing(field)
                    THEN [st EXCEPT !.reorder_indices =
                                        Append(@, MissingReorderIndex(i - 1, field))]
                    ELSE Fail(st, MkError("missing_not_nullable", field.name))
         IN  AddMissing(st2, requested_schema, i + 1)

get_indices(start_parquet_offset, requested_schema, fields, mask_indices) ==
    LET st0 == [err |-> NoError, parquet_offset |-> start_parquet_offset,
                reorder_indices |-> <<>>, found_fields |-> {},
                mask_indices |-> mask_indices]
        st1 == WalkFields(st0, requested_schema, fields, 1)
        st2 == IF st1.err = NoError
                  /\ Cardinality(st1.found_fields) # Len(requested_schema)
               THEN AddMissing(st1, requested_schema, 1)
               ELSE st1
    IN  IF st2.err # NoError
        THEN [err |-> st2.err, advance |-> 0, reorder |-> <<>>, mask_indices |-> <<>>]
        ELSE [err |-> NoError,
              advance |-> st2.parquet_offset + Len(fields) - start_parquet_offset,
              reorder |-> st2.reorder_indices,
              mask_indices |-> st2.mask_indices]

get_requested_indices(requested_schema, parquet_schema) ==
    LET r == get_indices(0, requested_schema, parquet_schema, <<>>)
    IN  [err |-> r.err, mask_indices |-> r.mask_indices, reorder |-> r.reorder]

(***************************************************************************)
(* Arrow arrays.  A null buffer is an Option: some = FALSE is None; in     *)
(* bits, TRUE marks a NULL row.  buf names the value buffer of a leaf.     *)
(***************************************************************************)
NoNulls == [some |-> FALSE, bits |-> <<>>]
SomeNulls(bits) == [some |-> TRUE, bits |-> bits]
PrimArray(t, len, nulls, buf) ==
    [k |-> "prim", t |-> t, len |-> len, nulls |-> nulls, buf |-> buf]
StructArray(fields, cols, len, nulls) ==
    [k |-> "struct", fields |-> fields, cols |-> cols, len |-> len, nulls |-> nulls]
ListArray(field, offsets, values, len, nulls) ==
    [k |-> "list", field |-> field, offsets |-> offsets, values |-> values,
     len |-> len, nulls |-> nulls]
MapArray(field, offsets, entries, ordered, len, nulls) ==
    [k |-> "map", field |-> field, offsets |-> offsets, entries |-> entries,
     ordered |-> ordered, len |-> len, nulls |-> nulls]

data_type(a) ==
    CASE a.k = "prim" -> APrim(a.t)
      [] a.k = "struct" -> AStruct(a.fields)
      [] a.k = "list" -> AList(a.field)
      [] OTHER -> AMap(a.field, a.ordered)

IsNullAt(nulls, i) == nulls.some /\ nulls.bits[i]
null_count(a) == Cardinality({i \in 1..a.len : IsNullAt(a.nulls, i)})
is_nullable(a) == null_count(a) # 0

\* NullBuffer::union
NullBufferUnion(lhs, rhs) ==
    IF ~lhs.some THEN rhs
    ELSE IF ~rhs.some THEN lhs
    ELSE SomeNulls([i \in 1..Len(lhs.bits) |-> lhs.bits[i] \/ rhs.bits[i]])

\* new_null_array
RECURSIVE new_null_array(_, _)
RECURSIVE NullColumns(_, _, _)
NullColumns(fs, n, i) ==
    IF i > Len(fs) THEN <<>>
    ELSE <<new_null_array(fs[i].type, n)>> \o NullColumns(fs, n, i + 1)

AllNull(n) == SomeNulls([i \in 1..n |-> TRUE])

new_null_array(dt, n) ==
    CASE dt.k = "prim" -> PrimArray(dt.t, n, AllNull(n), -1)
      [] dt.k = "struct" ->
            StructArray(dt.fields, NullColumns(dt.fields, n, 1), n, AllNull(n))
      [] dt.k = "list" ->
            ListArray(dt.field, [i \in 1..(n + 1) |-> 0],
                      new_null_array(dt.field.type, 0), n, AllNull(n))
      [] OTHER ->
            MapArray(dt.field, [i \in 1..(n + 1) |-> 0],
                     new_null_array(dt.field.type, 0), dt.ordered, n, AllNull(n))

\* arrow::compute::cast
arrow_cast(col, target) ==
    IF col.k = "prim" /\ target.k = "prim"
       /\ (col.t = target.t \/ <<col.t, target.t>> \in SafeWiden)
    THEN [err |-> NoError, val |-> [col EXCEPT !.t = target.t]]
    ELSE [err |-> MkError("arrow_cast", ""), val |-> col]

\* StructArray::try_new
UnmaskedNulls(field, a, nulls) ==
    /\ ~field.nullable
    /\ null_count(a) > 0
    /\ \E i \in 1..a.len : IsNullAt(a.nulls, i) /\ ~IsNullAt(nulls, i)

StructTryNew(fields, arrays, nulls) ==
    IF Len(fields) # Len(arrays) \/ arrays = <<>>
    THEN [err |-> MkError("arrow_invalid_struct", ""), val |-> <<>>]
    ELSE LET len == arrays[1].len IN
         IF \/ nulls.some /\ Len(nulls.bits) # len
            \/ \E i \in 1..Len(arrays) :
                  \/ arrays[i].len # len
                  \/ data_type(arrays[i]) # fields[i].type
                  \/ UnmaskedNulls(fields[i], arrays[i], nulls)
         THEN [err |-> MkError("arrow_invalid_struct", ""), val |-> <<>>]
         ELSE [err |-> NoError, val |-> StructArray(fields, arrays, len, nulls)]

ListTryNewWithoutValidity(field, offsets, values, len, nulls) ==
    [err |-> NoError, val |-> ListArray(field, offsets, values, len, NoNulls)]

\* GenericListArray::try_new
ListTryNew(field, offsets, values, len, nulls) ==
    IF \/ offsets[Len(offsets)] > values.len
       \/ nulls.some /\ Len(nulls.bits) # len
       \/ ~field.nullable /\ is_nullable(values)
       \/ field.type # data_type(values)
    THEN [err |-> MkError("arrow_invalid_list", ""), val |-> <<>>]
    ELSE [err |-> NoError, val |-> ListArray(field, offsets, values, len, nulls)]

\* MapArray::try_new
MapTryNew(field, offsets, entries, len, nulls, ordered) ==
    IF \/ offsets[Len(offsets)] > entries.len
       \/ nulls.some /\ Len(nulls.bits) # len
       \/ field.nullable \/ null_count(entries) # 0
       \/ field.type # data_type(entries)
       \/ Len(entries.cols) # 2
    THEN [err |-> MkError("arrow_invalid_map", ""), val |-> <<>>]
    ELSE [err |-> NoError,
          val |-> MapArray(field, offsets, entries, ordered, len, nulls)]

(***************************************************************************)
(* reorder_struct_array.  A result is an error, a panic (an index out of   *)
(* bounds) or a value.                                                     *)
(***************************************************************************)
NoSlot == [some |-> FALSE]
SomeSlot(field, col) == [some |-> TRUE, field |-> field, col |-> col]
Ok(v) == [err |-> NoError, panic |-> FALSE, val |-> v]
Err(e) == [err |-> e, panic |-> FALSE, val |-> <<>>]
Panic == [err |-> NoError, panic |-> TRUE, val |-> <<>>]
IsOk(r) == r.err = NoError /\ ~r.panic

\* final_fields_cols[index] = Some((field, col))
PutSlot(st, index, field, col) ==
    IF index + 1 > Len(st.slots) THEN [st EXCEPT !.panic = TRUE]
    ELSE [st EXCEPT !.slots[index + 1] = SomeSlot(field, col)]

IdentityTargetOwnPosition(parquet_position, reorder_index) == parquet_position - 1

\* the slot an Identity node fills
IdentityTarget(parquet_position, reorder_index) == reorder_index.index

ApplyIdentity(st, input, parquet_position, reorder_index) ==
    IF parquet_position > Len(input.cols) THEN [st EXCEPT !.panic = TRUE]
    ELSE PutSlot(st, IdentityTarget(parquet_position, reorder_index),
                 input.fields[parquet_position], input.cols[parquet_position])

ApplyCast(st, input, parquet_position, reorder_index) ==
    IF parquet_position > Len(input.cols) THEN [st EXCEPT !.panic = TRUE]
    ELSE LET c == arrow_cast(input.cols[parquet_position],
                             reorder_index.transform.target)
         IN  IF c.err # NoError THEN [st EXCEPT !.err = c.err]
             ELSE PutSlot(st, reorder_index.index,
                          [input.fields[parquet_position] EXCEPT
                              !.type = data_type(c.val)],
                          c.val)

\* the all-null column a Missing node stands for
MissingColumn(field, num_rows) == new_null_array(field.type, num_rows)

ApplyMissing(st, input, reorder_index) ==
    PutSlot(st, reorder_index.index, reorder_index.transform.field,
            MissingColumn(reorder_index.transform.field, input.len))

RECURSIVE reorder_struct_array(_, _)

reorder_list(list_array, input_field_name, children) ==
    LET list_field == list_array.field IN
    IF list_array.values.k = "struct"
    THEN LET r == reorder_struct_array(list_array.values, children) IN
         IF ~IsOk(r) THEN r
         ELSE LET result_array == r.val
                  new_list_field ==
                      ArrowField(list_field.name, AStruct(result_array.fields),
                                 is_nullable(result_array))
                  new_field == ArrowField(input_field_name, AList(new_list_field),
                                          list_field.nullable)
                  list == ListTryNew(new_list_field, list_array.offsets,
                                     result_array, list_array.len, list_array.nulls)
              IN  IF list.err # NoError THEN Err(list.err)
                  ELSE Ok(SomeSlot(new_field, list.val))
    ELSE Err(MkError("internal_list_child", ""))

reorder_map(map_array, input_field_name, children) ==
    LET map_field == map_array.field
        r == reorder_struct_array(map_array.entries, children)
    IN  IF ~IsOk(r) THEN r
        ELSE LET result_array == r.val
                 result_fields == result_array.fields
                 new_map_field ==
                     ArrowField(map_field.name, AStruct(result_fields),
                                is_nullable(result_array))
             IN  IF Len(result_fields) < 2 THEN Panic
                 ELSE
                 LET new_field ==
                         ArrowField(input_field_name,
                             AMap(ArrowField(map_field.name,
                                     AStruct(<<result_fields[1], result_fields[2]>>),
                                     FALSE),
                                  map_array.ordered),
                             map_field.nullable)
                     map == MapTryNew(new_map_field, map_array.offsets, result_array,
                                      map_array.len, map_array.nulls,
                                      map_array.ordered)
                 IN  IF map.err # NoError THEN Err(map.err)
                     ELSE Ok(SomeSlot(new_field, map.val))

ApplyNested(st, input, parquet_position, reorder_index) ==
    IF parquet_position > Len(input.cols) THEN [st EXCEPT !.panic = TRUE]
    ELSE
    LET children == reorder_index.transform.children
        input_field == input.fields[parquet_position]
        col == input.cols[parquet_position]
    IN  CASE col.k = "struct" ->
                LET r == reorder_struct_array(col, children) IN
                IF ~IsOk(r) THEN [st EXCEPT !.err = r.err, !.panic = r.panic]
                ELSE PutSlot(st, reorder_index.index,
                             ArrowField(input_field.name, AStruct(r.val.fields),
                                        input_field.nullable),
                             r.val)
          [] col.k = "list" ->
                LET r == reorder_list(col, input_field.name, children) IN
                IF ~IsOk(r) THEN [st EXCEPT !.err = r.err, !.panic = r.panic]
                ELSE PutSlot(st, reorder_index.index, r.val.field, r.val.col)
          [] col.k = "map" ->
                LET r == reorder_map(col, input_field.name, children) IN
                IF ~IsOk(r) THEN [st EXCEPT !.err = r.err, !.panic = r.panic]
                ELSE PutSlot(st, reorder_index.index, r.val.field, r.val.col)
          [] OTHER -> [st EXCEPT !.err = MkError("internal_nested_reorder", "")]

ApplyNode(st, input, parquet_position, reorder_index) ==
    CASE reorder_index.transform.k = "cast" ->
            ApplyCast(st, input, parquet_position, reorder_index)
      [] reorder_index.transform.k = "nested" ->
            ApplyNested(st, input, parquet_position, reorder_index)
      [] reorder_index.transform.k = "identity" ->
            ApplyIdentity(st, input, parquet_position, reorder_index)
      [] OTHER -> ApplyMissing(st, input, reorder_index)

RECURSIVE ApplyNodes(_, _, _, _)
ApplyNodes(st, input, requested_ordering, i) ==
    IF i > Len(requested_ordering) \/ st.err # NoError \/ st.panic THEN st
    ELSE ApplyNodes(ApplyNode(st, input, i, requested_ordering[i]),
                    input, requested_ordering, i + 1)

FilledSlotsPadded(slots) ==
    LET filled == SelectSeq(slots, LAMBDA s : s.some)
    IN  IF filled = <<>> THEN filled
        ELSE [i \in 1..Len(slots) |-> IF slots[i].some THEN slots[i] ELSE filled[1]]

\* final_fields_cols.into_iter().flatten().unzip()
FilledSlots(slots) == SelectSeq(slots, LAMBDA s : s.some)

\* the else branch of reorder_struct_array: fill final_fields_cols node by
\* node and build the struct from it
SlotFilling(input_data, requested_ordering) ==
    LET num_cols == Len(requested_ordering)
        st0 == [err |-> NoError, panic |-> FALSE,
                slots |-> [i \in 1..num_cols |-> NoSlot]]
        st == ApplyNodes(st0, input_data, requested_ordering, 1)
    IN  IF st.panic THEN Panic
        ELSE IF st.err # NoError THEN Err(st.err)
        ELSE LET filled == FilledSlots(st.slots) IN
             IF Len(filled) # num_cols THEN Err(MkError("internal_none_slot", ""))
             ELSE LET sa == StructTryNew([i \in 1..num_cols |-> filled[i].field],
                                         [i \in 1..num_cols |-> filled[i].col],
                                         input_data.nulls)
                  IN  IF sa.err # NoError THEN Err(sa.err) ELSE Ok(sa.val)

\* the test of the fast path
FastPath(requested_ordering) == ~ordering_needs_transform(requested_ordering)

reorder_struct_array(input_data, requested_ordering) ==
    IF FastPath(requested_ordering) THEN Ok(input_data)
    ELSE SlotFilling(input_data, requested_ordering)

(***************************************************************************)
(* fix_nested_null_masks.                                                  *)
(***************************************************************************)
LeafNullsOwnOnly(nulls, own) == own

LeafNullsExclusive(nulls, own) ==
    IF ~nulls.some THEN own
    ELSE IF ~own.some THEN nulls
    ELSE SomeNulls([i \in 1..Len(nulls.bits) |-> nulls.bits[i] # own.bits[i]])

\* the null buffer a non-struct child gets
LeafNulls(nulls, own) == NullBufferUnion(nulls, own)

StructNullsParentOnly(parent_nulls, own) == parent_nulls

\* the accumulated null buffer of a struct level
StructNulls(parent_nulls, own) == NullBufferUnion(parent_nulls, own)

RECURSIVE compute_nested_null_masks(_, _)
compute_nested_null_masks(sa, parent_nulls) ==
    LET nulls == StructNulls(parent_nulls, sa.nulls)
        columns == [i \in 1..Len(sa.cols) |->
                      IF sa.cols[i].k = "struct"
                      THEN compute_nested_null_masks(sa.cols[i], nulls)
                      ELSE [sa.cols[i] EXCEPT !.nulls = LeafNulls(nulls, @)]]
    IN  [sa EXCEPT !.cols = columns, !.nulls = nulls]

fix_nested_null_masks(b) == compute_nested_null_masks(b, NoNulls)

\* fixup_parquet_read
fixup_parquet_read(b, requested_ordering) ==
    LET data == reorder_struct_array(b, requested_ordering)
    IN  IF ~IsOk(data) THEN data ELSE Ok(fix_nested_null_masks(data.val))

(***************************************************************************)
(* The parquet reader under ProjectionMask::leaves(mask_indices): a leaf   *)
(* is decoded iff its index is in the mask, a struct, list or map iff one  *)
(* of its leaves is.  Every list row has ListFanout elements.  Under the   *)
(* null pattern "parents" row 1 of every nullable struct, list and map is  *)
(* NULL while the leaves below carry no null buffer of their own.          *)
(***************************************************************************)
NumRows == 2
ListFanout == 2
NullPatterns == {"none", "parents"}

ContainerNulls(field, len, np) ==
    IF np = "parents" /\ field.nullable /\ len > 0
    THEN SomeNulls([i \in 1..len |-> i = 1])
    ELSE NoNulls

Offsets(len) == [i \in 1..(len + 1) |-> (i - 1) * ListFanout]

NoColumn == [present |-> FALSE]

RECURSIVE DecodeColumn(_, _, _, _, _)
RECURSIVE DecodeFields(_, _, _, _, _, _)
DecodeFields(fields, i, start, mask, len, np) ==
    IF i > Len(fields) THEN [fields |-> <<>>, cols |-> <<>>]
    ELSE LET c == DecodeColumn(fields[i], start, mask, len, np)
             rest == DecodeFields(fields, i + 1, start + count_cols(fields[i]),
                                  mask, len, np)
         IN  IF c.present
             THEN [fields |-> <<c.field>> \o rest.fields, cols |-> <<c.col>> \o rest.cols]
             ELSE rest

DecodeColumn(field, start, mask, len, np) ==
    CASE field.type.k = "prim" ->
            IF start \in mask
            THEN [present |-> TRUE, field |-> field,
                  col |-> PrimArray(field.type.t, len, NoNulls, start)]
            ELSE NoColumn
      [] field.type.k = "struct" ->
            LET sub == DecodeFields(field.type.fields, 1, start, mask, len, np) IN
            IF sub.cols = <<>> THEN NoColumn
            ELSE [present |-> TRUE,
                  field |-> [field EXCEPT !.type = AStruct(sub.fields)],
                  col |-> StructArray(sub.fields, sub.cols, len,
                                      ContainerNulls(field, len, np))]
      [] field.type.k = "list" ->
            LET e == DecodeColumn(field.type.field, start, mask, len * ListFanout, np)
            IN  IF ~e.present THEN NoColumn
                ELSE [present |-> TRUE,
                      field |-> [field EXCEPT !.type = AList(e.field)],
                      col |-> ListArray(e.field, Offsets(len), e.col, len,
                                        ContainerNulls(field, len, np))]
      [] OTHER ->
            LET e == DecodeColumn(field.type.field, start, mask, len * ListFanout, np)
            IN  IF ~e.present THEN NoColumn
                ELSE [present |-> TRUE,
                      field |-> [field EXCEPT !.type = AMap(e.field, field.type.ordered)],
                      col |-> MapArray(e.field, Offsets(len), e.col,
                                       field.type.ordered, len,
                                       ContainerNulls(field, len, np))]

Range(s) == {s[i] : i \in DOMAIN s}

DecodeBatch(parquet_schema, mask_indices, np) ==
    LET sub == DecodeFields(parquet_schema, 1, 0, Range(mask_indices), NumRows, np)
    IN  StructArray(sub.fields, sub.cols, NumRows, NoNulls)

(***************************************************************************)
(* The schemas the pipeline is run on.                                     *)
(***************************************************************************)
\* flat schemas over the columns of the reorder example
FlatNames == {"i2", "i", "s"}
NameSeqs ==
    {s \in UNION {[1..n -> FlatNames] : n \in 0..Cardinality(FlatNames)} :
        \A i, j \in DOMAIN s : i # j => s[i] # s[j]}

FlatArrowField(n) ==
    CASE n = "i2" -> ArrowField("i2", Int32, TRUE)
      [] n = "i" -> ArrowField("i", Int32, FALSE)
      [] OTHER -> ArrowField("s", Utf8, TRUE)

FlatKinds == {[type |-> DT_INTEGER, nullable |-> FALSE],
              [type |-> DT_LONG, nullable |-> TRUE],
              [type |-> DT_STRING, nullable |-> TRUE]}

FlatParquet == {[i \in DOMAIN s |-> FlatArrowField(s[i])] : s \in NameSeqs}
FlatRequested ==
    UNION {{[i \in DOMAIN s |-> StructField(s[i], v[i].type, v[i].nullable)] :
                v \in [DOMAIN s -> FlatKinds]} : s \in NameSeqs}

\* nested arrow types
PX == ArrowField("x", Int32, TRUE)
PY == ArrowField("y", Utf8, TRUE)
PStructs == {AStruct(<<PX>>), AStruct(<<PY>>), AStruct(<<PX, PY>>)}

PMetadata == ArrowField("metadata", Binary, FALSE)
PValue == ArrowField("value", Binary, FALSE)
PVariantOk == {AStruct(<<PMetadata, PValue>>), AStruct(<<PValue, PMetadata>>)}
PVariantBad ==
    {AStruct(<<PMetadata, PValue, ArrowField("typed_value", Int32, TRUE)>>),
     AStruct(<<ArrowField("field1", Binary, FALSE),
               ArrowField("field2", Binary, FALSE)>>)}
PVariants == PVariantOk \cup PVariantBad

MaxMapChildren == 3
PMapOf(n, v) ==
    AMap(ArrowField("key_value",
            AStruct(SubSeq(<<ArrowField("key", Int32, FALSE),
                             ArrowField("value", v, TRUE)>>
                           \o [i \in 1..(MaxMapChildren - 2) |->
                                  ArrowField("extra", Int32, TRUE)],
                           1, n)),
            FALSE), FALSE)
PMaps(vs) == {PMapOf(n, v) : n \in 0..MaxMapChildren, v \in vs}
PLists(es) == {AList(ArrowField("element", e, TRUE)) : e \in es}
PWrap(t) == AStruct(<<PX, ArrowField("v", t, TRUE)>>)

PBase == {Int32, Utf8} \cup PStructs \cup PVariants
PLevel1 == PBase \cup PLists(PBase) \cup PMaps(PBase)
PInner == PMaps({Utf8}) \cup PLists({Int32})
PLevel2 ==
    {PWrap(t) : t \in PVariants \cup PInner}
    \cup PLists(PMaps({Utf8}) \cup PLists({AStruct(<<PX, PY>>)}))
    \cup {PMapOf(2, t) : t \in PMaps({Utf8})}
PTypes == PLevel1 \cup PLevel2

PB == ArrowField("b", Int32, FALSE)
NestedParquet ==
    UNION {{<<ArrowField("a", t, TRUE)>>, <<PB, ArrowField("a", t, TRUE)>>,
            <<ArrowField("a", t, TRUE), PB>>} : t \in PTypes}

\* nested kernel types
LX == StructField("x", DT_INTEGER, FALSE)
LXL == StructField("x", DT_LONG, TRUE)
LY == StructField("y", DT_STRING, TRUE)
LZ == StructField("z", DT_STRING, TRUE)
LZR == StructField("z", DT_INTEGER, FALSE)
LStructs == {KStruct(<<LX>>), KStruct(<<LY, LX>>), KStruct(<<LX, LZ>>),
             KStruct(<<LZ>>), KStruct(<<LZR>>), KStruct(<<LXL, LY>>)}

LBase == {DT_INTEGER, DT_LONG, DT_STRING} \cup LStructs \cup {unshredded_variant}
LArrays(es) == {KArray(e, TRUE) : e \in es}
LMaps(vs) == {KMap(DT_INTEGER, v, TRUE) : v \in vs}
LLevel1 == LBase \cup LArrays(LBase) \cup LMaps(LBase)
             \cup {KMap(DT_LONG, DT_STRING, TRUE)}
LInner == LMaps({DT_STRING}) \cup LArrays({DT_INTEGER, KStruct(<<LY, LX>>)})
LWrap(t) == KStruct(<<LX, StructField("v", t, TRUE)>>)
LLevel2 ==
    {LWrap(t) : t \in LInner \cup {unshredded_variant}}
    \cup LArrays(LInner) \cup LMaps(LInner)
LTypes == LLevel1 \cup LLevel2

LB == StructField("b", DT_INTEGER, FALSE)
NestedRequested ==
    {<<LB>>} \cup
    UNION {{<<StructField("a", t, TRUE)>>, <<StructField("a", t, TRUE), LB>>} :
              t \in LTypes}

\* one primitive column under every pairing of a kernel and an arrow
\* primitive type, alone and after a column that is read as it is
ArrowPrims == {Int32, Int64, Utf8, Binary, Float32, Float64}
KernelPrims == {DT_INTEGER, DT_LONG, DT_STRING, DT_BINARY, DT_FLOAT, DT_DOUBLE}
PrimParquet ==
    UNION {{<<ArrowField("f", t, TRUE)>>, <<PX, ArrowField("f", t, TRUE)>>,
            <<ArrowField("a", AStruct(<<PY, ArrowField("f", t, TRUE)>>), TRUE)>>} :
              t \in ArrowPrims}
PrimRequested ==
    UNION {{<<StructField("f", t, TRUE)>>, <<StructField("f", t, TRUE), LX>>,
            <<StructField("a", KStruct(<<StructField("f", t, TRUE)>>), TRUE)>>} :
              t \in KernelPrims}

SchemaPairs ==
    (FlatRequested \X FlatParquet) \cup (NestedRequested \X NestedParquet)
        \cup (PrimRequested \X PrimParquet)

(***************************************************************************)
(* The read of one file: plan, decode, fix up.                             *)
(***************************************************************************)
NoPlan == [err |-> NoError, mask_indices |-> <<>>, reorder |-> <<>>]
NoBatch == StructArray(<<>>, <<>>, 0, NoNulls)
NoNullRun == [in |-> NoBatch, out |-> NoBatch, again |-> NoBatch]
NoAnswer == [given |-> FALSE, value |-> FALSE]
NoReader == [main |-> "idle"]

Init ==
    /\ pc = "start"
    /\ \E p \in SchemaPairs : requested = p[1] /\ parquet = p[2]
    /\ planned = NoPlan
    /\ batch = NoBatch
    /\ shaped = Ok(NoBatch)
    /\ final = Ok(NoBatch)
    /\ nb = NoNullRun
    /\ answer = NoAnswer
    /\ reader = NoReader

\* get_requested_indices succeeds
Plan ==
    /\ pc = "start"
    /\ planned' = get_requested_indices(requested, parquet)
    /\ planned'.err = NoError
    /\ pc' = "planned"
    /\ UNCHANGED <<requested, parquet, batch, shaped, final, nb, answer, reader>>

\* get_requested_indices returns an error
PlanFails ==
    /\ pc = "start"
    /\ planned' = get_requested_indices(requested, parquet)
    /\ planned'.err # NoError
    /\ pc' = "plan_failed"
    /\ UNCHANGED <<requested, parquet, batch, shaped, final, nb, answer, reader>>

\* the reader decodes a batch under the projection mask
Decode ==
    /\ pc = "planned"
    /\ \E np \in NullPatterns :
          batch' = DecodeBatch(parquet, planned.mask_indices, np)
    /\ pc' = "decoded"
    /\ UNCHANGED <<requested, parquet, planned, shaped, final, nb, answer, reader>>

\* fixup_parquet_read
Fixup ==
    /\ pc = "decoded"
    /\ shaped' = reorder_struct_array(batch, planned.reorder)
    /\ final' = fixup_parquet_read(batch, planned.reorder)
    /\ pc' = "done"
    /\ UNCHANGED <<requested, parquet, planned, batch, nb, answer, reader>>

Next == Plan \/ PlanFails \/ Decode \/ Fixup

Spec == Init /\ [][Next]_vars

(***************************************************************************)
(* fix_nested_null_masks on its own: it is public and takes any struct     *)
(* array.  The batches nest structs two and three levels deep, put a list  *)
(* of structs below a struct, or have no column at all; every struct and   *)
(* every column below a struct carries no null buffer or any null buffer   *)
(* over the rows.  ExampleBatch is the batch of the five-row example.      *)
(***************************************************************************)
MaxNullRows == 2

NullBuffers(n) == {NoNulls} \cup {SomeNulls(b) : b \in [1..n -> BOOLEAN]}

LeafField(name) == ArrowField(name, Int32, TRUE)
Leaf(n, nulls) == PrimArray("int32", n, nulls, 0)
StructOfLeaf(name, n, nulls, leaf_nulls) ==
    StructArray(<<LeafField(name)>>, <<Leaf(n, leaf_nulls)>>, n, nulls)
FieldOf(name, a) == ArrowField(name, data_type(a), TRUE)
StructOver(names, cols, n, nulls) ==
    StructArray([i \in 1..Len(cols) |-> FieldOf(names[i], cols[i])], cols, n, nulls)

WideBatches(n) ==
    {StructOver(<<"p", "inner">>,
                <<Leaf(n, b[2]), StructOfLeaf("q", n, b[3], b[4])>>, n, b[1]) :
        b \in [1..4 -> NullBuffers(n)]}

DeepBatches(n) ==
    {StructOver(<<"inner">>,
                <<StructOver(<<"deep">>, <<StructOfLeaf("r", n, b[3], b[4])>>,
                             n, b[2])>>, n, b[1]) :
        b \in [1..4 -> NullBuffers(n)]}

ListOfStruct(n, nulls) ==
    LET e == StructOfLeaf("e", n * ListFanout, NoNulls, NoNulls)
    IN  ListArray(FieldOf("element", e), Offsets(n), e, n, nulls)

ListBatches(n) ==
    {StructOver(<<"inner">>,
                <<StructOver(<<"l">>, <<ListOfStruct(n, b[3])>>, n, b[2])>>,
                n, b[1]) :
        b \in [1..3 -> NullBuffers(n)]}

EmptyBatches(n) == {StructArray(<<>>, <<>>, n, b) : b \in NullBuffers(n)}

ExampleParentNulls == <<FALSE, TRUE, TRUE, TRUE, TRUE>>
ExampleChildNulls == <<FALSE, FALSE, FALSE, TRUE, TRUE>>
ExampleBatch ==
    LET n == Len(ExampleParentNulls)
    IN  StructOver(<<"outer">>,
                   <<StructOfLeaf("leaf", n, SomeNulls(ExampleParentNulls),
                                  SomeNulls(ExampleChildNulls))>>, n, NoNulls)

NullBatches ==
    {ExampleBatch} \cup
    UNION {WideBatches(n) \cup DeepBatches(n) \cup ListBatches(n) \cup EmptyBatches(n) :
              n \in 0..MaxNullRows}

InitNulls ==
    /\ pc = "nulls_start"
    /\ requested = <<>>
    /\ parquet = <<>>
    /\ planned = NoPlan
    /\ batch = NoBatch
    /\ shaped = Ok(NoBatch)
    /\ final = Ok(NoBatch)
    /\ \E b \in NullBatches : nb = [NoNullRun EXCEPT !.in = b]
    /\ answer = NoAnswer
    /\ reader = NoReader

\* fix_nested_null_masks
FixNulls ==
    /\ pc = "nulls_start"
    /\ nb' = [nb EXCEPT !.out = fix_nested_null_masks(nb.in)]
    /\ pc' = "nulls_fixed"
    /\ UNCHANGED <<requested, parquet, planned, batch, shaped, final, answer, reader>>

\* fix_nested_null_masks on the batch it returned
FixNullsAgain ==
    /\ pc = "nulls_fixed"
    /\ nb' = [nb EXCEPT !.again = fix_nested_null_masks(nb.out)]
    /\ pc' = "nulls_refixed"
    /\ UNCHANGED <<requested, parquet, planned, batch, shaped, final, answer, reader>>

NextNulls == FixNulls \/ FixNullsAgain

SpecNulls == InitNulls /\ [][NextNulls]_vars

(***************************************************************************)
(* reorder_struct_array on its own: it takes any struct array and any      *)
(* ordering.  The ordering is the plan of a flat request; the batch is     *)
(* decoded in full from a parquet schema of zero to three columns, which   *)
(* need not be the one the plan was made for.                              *)
(***************************************************************************)
OtherParquet ==
    {SubSeq(<<FlatArrowField("i2"), FlatArrowField("i"), FlatArrowField("s")>>, 1, n) :
        n \in 0..Cardinality(FlatNames)}

AllLeaves(parquet_schema) == [i \in 1..SumCols(parquet_schema, 1) |-> i - 1]

InitReorder ==
    /\ pc = "reorder_start"
    /\ \E r \in FlatRequested, p \in FlatParquet :
          /\ requested = r
          /\ parquet = p
          /\ planned = get_requested_indices(r, p)
          /\ planned.err = NoError
    /\ batch = NoBatch
    /\ shaped = Ok(NoBatch)
    /\ final = Ok(NoBatch)
    /\ nb = NoNullRun
    /\ answer = NoAnswer
    /\ reader = NoReader

\* a batch arrives
Arrive ==
    /\ pc = "reorder_start"
    /\ \E o \in OtherParquet, np \in NullPatterns :
          batch' = DecodeBatch(o, AllLeaves(o), np)
    /\ pc' = "reorder_batch"
    /\ UNCHANGED <<requested, parquet, planned, shaped, final, nb, answer, reader>>

\* reorder_struct_array
Reorder ==
    /\ pc = "reorder_batch"
    /\ shaped' = reorder_struct_array(batch, planned.reorder)
    /\ pc' = "reorder_done"
    /\ UNCHANGED <<requested, parquet, planned, batch, final, nb, answer, reader>>

NextReorder == Arrive \/ Reorder

SpecReorder == InitReorder /\ [][NextReorder]_vars

(***************************************************************************)
(* Threads that share one plan.  requested_ordering is borrowed immutably  *)
(* (&[ReorderIndex]) by reorder_struct_array and fixup_parquet_read, and   *)
(* each thread owns its batch; pc, batch, shaped and final hold one value  *)
(* per thread.  A thread's fixup is two steps, the reorder and the null    *)
(* mask repair.                                                            *)
(***************************************************************************)
NumThreads == 2
Threads == 1..NumThreads

SharedPlanTaken(t) ==
    IF \E u \in Threads : u # t /\ pc[u] # "thread_start" THEN <<>>
    ELSE planned.reorder

\* the ordering thread t passes to reorder_struct_array
SharedPlan(t) == planned.reorder

InitThreads ==
    /\ pc = [t \in Threads |-> "thread_start"]
    /\ \E p \in SchemaPairs :
          /\ requested = p[1]
          /\ parquet = p[2]
          /\ planned = get_requested_indices(p[1], p[2])
          /\ planned.err = NoError
    /\ \E nps \in [Threads -> NullPatterns] :
          batch = [t \in Threads |-> DecodeBatch(parquet, planned.mask_indices, nps[t])]
    /\ shaped = [t \in Threads |-> Ok(NoBatch)]
    /\ final = [t \in Threads |-> Ok(NoBatch)]
    /\ nb = NoNullRun
    /\ answer = NoAnswer
    /\ reader = NoReader

\* fixup_parquet_read, first step: reorder_struct_array
ThreadReorder(t) ==
    /\ pc[t] = "thread_start"
    /\ shaped' = [shaped EXCEPT ![t] = reorder_struct_array(batch[t], SharedPlan(t))]
    /\ pc' = [pc EXCEPT ![t] = "thread_reordered"]
    /\ UNCHANGED <<requested, parquet, planned, batch, final, nb, answer, reader>>

\* fixup_parquet_read, second step: fix_nested_null_masks, or the error
ThreadFix(t) ==
    /\ pc[t] = "thread_reordered"
    /\ final' = [final EXCEPT ![t] = IF IsOk(shaped[t])
                                      THEN Ok(fix_nested_null_masks(shaped[t].val))
                                      ELSE shaped[t]]
    /\ pc' = [pc EXCEPT ![t] = "thread_done"]
    /\ UNCHANGED <<requested, parquet, planned, batch, shaped, nb, answer, reader>>

NextThreads == \E t \in Threads : ThreadReorder(t) \/ ThreadFix(t)

SpecThreads == InitThreads /\ [][NextThreads]_vars

(***************************************************************************)
(* ordering_needs_transform on its own, over orderings of up to            *)
(* MaxPlanLen nodes whether or not a planner would produce them: targets   *)
(* may repeat, and a Nested node may hold no child.                        *)
(***************************************************************************)
MaxPlanLen == 3

ChildOrderings ==
    {<<>>,
     <<ReorderIdentity(0), ReorderIdentity(1)>>,
     <<ReorderIdentity(1), ReorderIdentity(0)>>,
     <<ReorderIdentity(0), ReorderIdentity(0)>>,
     <<ReorderCast(0, Int64)>>,
     <<ReorderNested(0, <<ReorderMissing(0, PY)>>)>>,
     <<ReorderNested(0, <<ReorderIdentity(0)>>)>>}

OrderingNodes ==
    {ReorderIdentity(0), ReorderIdentity(1), ReorderIdentity(2),
     ReorderCast(0, Int64), ReorderCast(1, Int64),
     ReorderMissing(1, PY), ReorderMissing(2, PY)}
    \cup {ReorderNested(i, c) : i \in {0, 1}, c \in ChildOrderings}

Orderings == UNION {[1..n -> OrderingNodes] : n \in 0..MaxPlanLen}

InitOrdering ==
    /\ pc = "ordering_start"
    /\ requested = <<>>
    /\ parquet = <<>>
    /\ \E o \in Orderings : planned = [NoPlan EXCEPT !.reorder = o]
    /\ batch = NoBatch
    /\ shaped = Ok(NoBatch)
    /\ final = Ok(NoBatch)
    /\ nb = NoNullRun
    /\ answer = NoAnswer
    /\ reader = NoReader

\* ordering_needs_transform
AskOrdering ==
    /\ pc = "ordering_start"
    /\ answer' = [given |-> TRUE, value |-> ordering_needs_transform(planned.reorder)]
    /\ pc' = "ordering_done"
    /\ UNCHANGED <<requested, parquet, planned, batch, shaped, final, nb, reader>>

NextOrdering == AskOrdering

SpecOrdering == InitOrdering /\ [][NextOrdering]_vars

(***************************************************************************)
(* Notions the properties are stated in, defined on the schemas alone.     *)
(***************************************************************************)
Planned == pc \in {"planned", "decoded", "done"}
PlanReturned == pc # "start"

\* the paths of the leaves of an arrow type, depth first; a path lists the
\* child position taken at every level (1 below a list or a map)
RECURSIVE LeafPaths(_)
RECURSIVE LeafPathsOfFields(_, _)
Prefixed(i, paths) == [j \in 1..Len(paths) |-> <<i>> \o paths[j]]
LeafPathsOfFields(fs, i) ==
    IF i > Len(fs) THEN <<>>
    ELSE Prefixed(i, LeafPaths(fs[i].type)) \o LeafPathsOfFields(fs, i + 1)
LeafPaths(t) ==
    CASE t.k = "prim" -> << <<>> >>
      [] t.k = "struct" -> LeafPathsOfFields(t.fields, 1)
      [] OTHER -> Prefixed(1, LeafPaths(t.field.type))

HasName(lfields, n) == \E j \in 1..Len(lfields) : lfields[j].name = n
FieldNamed(lfields, n) == lfields[CHOOSE j \in 1..Len(lfields) : lfields[j].name = n]

\* is the physical leaf at the path below a physical field that is matched
\* by name to a logical field at every level
RECURSIVE PathMatched(_, _, _)
RECURSIVE TypeMatched(_, _, _)
PathMatched(path, lfields, pfields) ==
    LET pf == pfields[path[1]] IN
    /\ HasName(lfields, pf.name)
    /\ TypeMatched(Tail(path), FieldNamed(lfields, pf.name).type, pf.type)
TypeMatched(path, lt, pt) ==
    CASE pt.k = "prim" -> TRUE
      [] pt.k = "struct" ->
            lt.k \in {"struct", "variant"} /\ PathMatched(path, lt.fields, pt.fields)
      [] pt.k = "list" ->
            lt.k = "array" /\ TypeMatched(Tail(path), lt.element_type, pt.field.type)
      [] OTHER ->
            /\ lt.k = "map"
            /\ LET entry == Tail(path) IN
               TypeMatched(Tail(entry),
                           IF entry[1] = 1 THEN lt.key_type ELSE lt.value_type,
                           pt.field.type.fields[entry[1]].type)

MatchedLeaves(lfields, pfields) ==
    LET paths == LeafPathsOfFields(pfields, 1) IN
    SelectSeq([i \in 1..Len(paths) |-> i - 1],
              LAMBDA leaf : PathMatched(paths[leaf + 1], lfields, pfields))

\* the logical and physical field lists of the level below a matched pair of
\* types: lists are transparent, a map is the level of its key and value
RECURSIVE SubLevel(_, _)
SubLevel(lt, pt) ==
    CASE pt.k = "struct" -> [l |-> lt.fields, p |-> pt.fields]
      [] pt.k = "list" -> SubLevel(lt.element_type, pt.field.type)
      [] OTHER ->
            [l |-> <<StructField(pt.field.type.fields[1].name, lt.key_type, FALSE),
                     StructField(pt.field.type.fields[2].name, lt.value_type,
                                 lt.value_contains_null)>>,
             p |-> pt.field.type.fields]

\* can the planner descend from the matched pair of types
Descends(lt, pt) ==
    \/ pt.k = "struct" /\ lt.k \in {"struct", "variant"}
    \/ pt.k = "list" /\ lt.k = "array"
    \/ pt.k = "map" /\ lt.k = "map" /\ pt.field.type.k = "struct"
          /\ Len(pt.field.type.fields) = 2

\* all pairs (logical type, physical field, context) the planner compares
RECURSIVE WalkedFields(_, _, _)
RECURSIVE WalkedTypes(_, _, _)
WalkedTypes(lt, pf, ctx) ==
    {[l |-> lt, p |-> pf, ctx |-> ctx]} \cup
    (IF ~Descends(lt, pf.type) THEN {}
     ELSE CASE pf.type.k = "struct" ->
                  WalkedFields(lt.fields, pf.type.fields, "struct")
            [] pf.type.k = "list" ->
                  WalkedTypes(lt.element_type, pf.type.field, "array")
            [] OTHER ->
                  WalkedTypes(lt.key_type, pf.type.field.type.fields[1], "key")
                  \cup WalkedTypes(lt.value_type, pf.type.field.type.fields[2], "value"))
WalkedFields(lfields, pfields, ctx) ==
    UNION {IF HasName(lfields, pfields[i].name)
           THEN WalkedTypes(FieldNamed(lfields, pfields[i].name).type, pfields[i], ctx)
           ELSE {} : i \in 1..Len(pfields)}

Walked == WalkedFields(requested, parquet, "top")

\* the levels (logical fields, physical fields) the planner walks
Levels(lfields, pfields) ==
    {[l |-> lfields, p |-> pfields]} \cup
    {SubLevel(w.l, w.p.type) :
        w \in {v \in WalkedFields(lfields, pfields, "top") :
                  v.p.type.k \in {"struct", "map"} /\ Descends(v.l, v.p.type)}}

Unmatched(level) ==
    {j \in 1..Len(level.l) :
        \A i \in 1..Len(level.p) : level.p[i].name # level.l[j].name}

(***************************************************************************)
(* C1: when get_requested_indices succeeds, mask_indices is exactly the    *)
(* ascending, duplicate free list of the depth-first leaf indices of the   *)
(* physical leaves whose path is matched by name at every level; a field   *)
(* that is not matched contributes nothing and advances the leaf counter   *)
(* by all of its leaves.                                                   *)
(***************************************************************************)
C1_MaskIsMatchedLeaves ==
    Planned => planned.mask_indices = MatchedLeaves(requested, parquet)

C1_Witness ==
    /\ pc = "planned"
    /\ parquet # <<>>
    /\ parquet[1].type.k # "prim"
    /\ ~HasName(requested, parquet[1].name)
    /\ planned.mask_indices # <<>>
    /\ planned.mask_indices[1] >= 2

(***************************************************************************)
(* C2: whenever planning succeeds, reorder_struct_array applied to the     *)
(* decoded batch succeeds and the names, order and nesting of its fields   *)
(* are those of the requested schema at every level.                       *)
(***************************************************************************)
RECURSIVE KernelShape(_)
RECURSIVE ArrowShape(_)
KernelShape(t) ==
    CASE t.k = "prim" -> [k |-> "leaf"]
      [] t.k \in {"struct", "variant"} ->
            [k |-> "struct",
             names |-> [i \in 1..Len(t.fields) |-> t.fields[i].name],
             subs |-> [i \in 1..Len(t.fields) |-> KernelShape(t.fields[i].type)]]
      [] t.k = "array" -> [k |-> "list", subs |-> <<KernelShape(t.element_type)>>]
      [] OTHER -> [k |-> "map",
                   subs |-> <<KernelShape(t.key_type), KernelShape(t.value_type)>>]
ArrowShape(t) ==
    CASE t.k = "prim" -> [k |-> "leaf"]
      [] t.k = "struct" ->
            [k |-> "struct",
             names |-> [i \in 1..Len(t.fields) |-> t.fields[i].name],
             subs |-> [i \in 1..Len(t.fields) |-> ArrowShape(t.fields[i].type)]]
      [] t.k = "list" -> [k |-> "list", subs |-> <<ArrowShape(t.field.type)>>]
      [] OTHER -> [k |-> "map",
                   subs |-> [i \in 1..Len(t.field.type.fields) |->
                                ArrowShape(t.field.type.fields[i].type)]]

C2_ReorderYieldsRequestedShape ==
    pc = "done" =>
        /\ IsOk(shaped)
        /\ ArrowShape(data_type(shaped.val)) = KernelShape(KStruct(requested))

(***************************************************************************)
(* C3: in every plan returned, at every level the target positions of the  *)
(* nodes are pairwise distinct and are exactly 0 .. n-1 for the n logical  *)
(* fields of that level.                                                   *)
(***************************************************************************)
RECURSIVE PlanBijective(_, _, _)
PlanBijective(plan, lfields, pfields) ==
    /\ Len(plan) = Len(lfields)
    /\ {plan[i].index : i \in 1..Len(plan)} = 0..(Len(lfields) - 1)
    /\ \A i \in 1..Len(plan) :
          plan[i].transform.k = "nested" =>
              LET lf == lfields[plan[i].index + 1]
                  sub == SubLevel(lf.type, FieldNamed(pfields, lf.name).type)
              IN  PlanBijective(plan[i].transform.children, sub.l, sub.p)

C3_TargetsArePermutation ==
    Planned => PlanBijective(planned.reorder, requested, parquet)

C3_Witness ==
    /\ pc = "planned"
    /\ \E i \in 1..Len(planned.reorder) :
          /\ planned.reorder[i].transform.k = "nested"
          /\ planned.reorder[i].index # i - 1
          /\ Len(planned.reorder[i].transform.children) = 2
          /\ planned.reorder[i].transform.children[1].index = 1

(***************************************************************************)
(* C4: every nullable logical field without a same-named physical field at *)
(* its level yields a Missing node at the field's logical position with    *)
(* the descriptor derived from the logical field, the Missing nodes of a   *)
(* level come in logical declaration order, and reorder_struct_array turns *)
(* each Missing node into an all-null column of that type as long as the   *)
(* struct being reshaped, consuming no input column.                       *)
(***************************************************************************)
MissingNodes(plan) == SelectSeq(plan, LAMBDA ri : ri.transform.k = "missing")
UnmatchedSeq(lfields, pfields) ==
    SelectSeq([j \in 1..Len(lfields) |-> j],
              LAMBDA j : ~HasName(pfields, lfields[j].name))
ExpectedMissing(lfields, pfields) ==
    LET u == UnmatchedSeq(lfields, pfields) IN
    [n \in 1..Len(u) |-> ReorderMissing(u[n] - 1, try_into_arrow(lfields[u[n]]))]

RECURSIVE PlanMissingOk(_, _, _)
PlanMissingOk(plan, lfields, pfields) ==
    /\ MissingNodes(plan) = ExpectedMissing(lfields, pfields)
    /\ \A j \in 1..Len(lfields) :
          ~HasName(pfields, lfields[j].name) => lfields[j].nullable
    /\ \A i \in 1..Len(plan) :
          plan[i].index < Len(lfields) /\ plan[i].transform.k # "missing" =>
              LET lf == lfields[plan[i].index + 1]
                  pf == FieldNamed(pfields, lf.name)
              IN  IF plan[i].transform.k = "nested"
                  THEN LET sub == SubLevel(lf.type, pf.type)
                       IN  PlanMissingOk(plan[i].transform.children, sub.l, sub.p)
                  ELSE \A lev \in Levels(<<lf>>, <<pf>>) : Unmatched(lev) = {}

StructOf(col) ==
    CASE col.k = "list" -> col.values
      [] col.k = "map" -> col.entries
      [] OTHER -> col

AllNullColumn(col) == \A r \in 1..col.len : IsNullAt(col.nulls, r)

RECURSIVE MissingFilled(_, _, _)
MissingFilled(plan, in, out) ==
    /\ Len(in.cols) = Len(plan) - Len(MissingNodes(plan))
    /\ Len(out.cols) = Len(plan)
    /\ \A i \in 1..Len(plan) :
          LET slot == plan[i].index + 1 IN
          CASE plan[i].transform.k = "missing" ->
                  /\ out.fields[slot] = plan[i].transform.field
                  /\ data_type(out.cols[slot]) = plan[i].transform.field.type
                  /\ out.cols[slot].len = in.len
                  /\ AllNullColumn(out.cols[slot])
            [] plan[i].transform.k = "nested" ->
                  MissingFilled(plan[i].transform.children,
                                StructOf(in.cols[i]), StructOf(out.cols[slot]))
            [] OTHER -> TRUE

RequiredFieldMissing ==
    \E lev \in Levels(requested, parquet) :
        \E j \in Unmatched(lev) : ~lev.l[j].nullable

C5_RequiredMissingFails ==
    PlanReturned /\ RequiredFieldMissing =>
        /\ pc = "plan_failed"
        /\ planned.mask_indices = <<>>
        /\ planned.reorder = <<>>

C5_Witness ==
    /\ pc = "plan_failed"
    /\ planned.err = MkError("missing_not_nullable", "z")
    /\ requested[1].type.k = "array"

(***************************************************************************)
(* C6: for a requested schema contained in the parquet schema, in the same *)
(* order and with identical types, the plan needs no transform and the     *)
(* mask is the identity range.                                             *)
(***************************************************************************)
RECURSIVE IsSubSchema(_, _)
RECURSIVE SameType(_, _)
\* lfields is a subsequence of pfields by name, with the same types
IsSubSchema(lfields, pfields) ==
    /\ \A j \in 1..Len(lfields) :
          /\ HasName(pfields, lfields[j].name)
          /\ SameType(lfields[j].type, FieldNamed(pfields, lfields[j].name).type)
    /\ \A i, j \in 1..Len(pfields) :
          i < j /\ HasName(lfields, pfields[i].name) /\ HasName(lfields, pfields[j].name)
            => get_full(lfields, pfields[i].name) < get_full(lfields, pfields[j].name)
SameType(lt, pt) ==
    CASE lt.k = "prim" -> pt = KernelPrimToArrow(lt.t)
      [] lt.k = "struct" -> pt.k = "struct" /\ IsSubSchema(lt.fields, pt.fields)
      [] lt.k = "variant" ->
            /\ pt.k = "struct"
            /\ Len(pt.fields) = Len(lt.fields)
            /\ IsSubSchema(lt.fields, pt.fields)
      [] lt.k = "array" -> pt.k = "list" /\ SameType(lt.element_type, pt.field.type)
      [] OTHER ->
            /\ pt.k = "map"
            /\ pt.field.type.k = "struct"
            /\ Len(pt.field.type.fields) = 2
            /\ SameType(lt.key_type, pt.field.type.fields[1].type)
            /\ SameType(lt.value_type, pt.field.type.fields[2].type)

IdentityRange(n) == [i \in 1..n |-> i - 1]
Ascending(s) == \A i \in 1..(Len(s) - 1) : s[i] < s[i + 1]

\* the statement as claimed
C6_SubSchemaIdentityRange ==
    PlanReturned /\ IsSubSchema(requested, parquet) =>
        /\ Planned
        /\ planned.mask_indices = IdentityRange(Len(planned.mask_indices))
        /\ ~ordering_needs_transform(planned.reorder)

\* C6 as amended: the plan needs no transform and the mask lists the leaves
\* of the requested fields in ascending order; it is the identity range
\* when no leaf of the parquet schema is left out
C6_SubSchemaNoTransform ==
    PlanReturned /\ IsSubSchema(requested, parquet) =>
        /\ Planned
        /\ ~ordering_needs_transform(planned.reorder)
        /\ Ascending(planned.mask_indices)
        /\ Range(planned.mask_indices) = Range(MatchedLeaves(requested, parquet))
        /\ (Len(MatchedLeaves(requested, parquet)) = SumCols(parquet, 1)
              => planned.mask_indices = IdentityRange(SumCols(parquet, 1)))

C6_Witness ==
    /\ pc = "planned"
    /\ IsSubSchema(requested, parquet)
    /\ ~ordering_needs_transform(planned.reorder)
    /\ planned.mask_indices # <<>>
    /\ planned.mask_indices[1] > 0
    /\ Len(planned.mask_indices) < SumCols(parquet, 1)

(***************************************************************************)
(* C7: a plan of Identity nodes whose targets are a permutation of         *)
(* 0 .. n-1, applied to a struct of n columns, puts input column i with    *)
(* its field and values into slot plan[i].index; parquet [i2, i, s]        *)
(* requested as [i, s, i2] comes out as [i, s, i2].                        *)
(***************************************************************************)
IdentityPermutation(plan, n) ==
    /\ Len(plan) = n
    /\ \A i \in 1..n : plan[i].transform.k = "identity"
    /\ {plan[i].index : i \in 1..n} = 0..(n - 1)

Names(fields) == [i \in 1..Len(fields) |-> fields[i].name]

C7_IdentityMovesColumns ==
    pc = "done" /\ IdentityPermutation(planned.reorder, Len(batch.cols)) =>
        /\ IsOk(shaped)
        /\ Len(shaped.val.cols) = Len(batch.cols)
        /\ shaped.val.len = batch.len
        /\ \A i \in 1..Len(batch.cols) :
              /\ shaped.val.fields[planned.reorder[i].index + 1] = batch.fields[i]
              /\ shaped.val.cols[planned.reorder[i].index + 1] = batch.cols[i]
        /\ (Names(batch.fields) = <<"i2", "i", "s">>
            /\ Names(requested) = <<"i", "s", "i2">>
              => Names(shaped.val.fields) = <<"i", "s", "i2">>)

C7_Witness ==
    /\ pc = "done"
    /\ IdentityPermutation(planned.reorder, 3)
    /\ Names(batch.fields) = <<"i2", "i", "s">>
    /\ IsOk(shaped)
    /\ Names(shaped.val.fields) = <<"i", "s", "i2">>
    /\ shaped.val.cols[3] = batch.cols[1]

(***************************************************************************)
(* C8: a logical map matched to a physical map whose entries struct has    *)
(* 0, 1 or more than 2 children makes get_requested_indices fail with a    *)
(* map shape error, at top level, inside a struct, inside an array and     *)
(* inside the value of another map.                                        *)
(***************************************************************************)
MalformedMaps ==
    {w \in Walked :
        /\ w.l.k = "map"
        /\ w.p.type.k = "map"
        /\ w.p.type.field.type.k = "struct"
        /\ Len(w.p.type.field.type.fields) # 2}

MapShapeErrors == {"map_no_key_col", "map_no_val_col", "map_more_than_2"}

C8_MalformedMapFails ==
    PlanReturned /\ MalformedMaps # {} =>
        /\ pc = "plan_failed"
        /\ planned.err.kind \in MapShapeErrors
        /\ planned.reorder = <<>>
        /\ planned.mask_indices = <<>>

C8_Witness ==
    /\ pc = "plan_failed"
    /\ planned.err.kind = "map_more_than_2"
    /\ \E w \in MalformedMaps : w.ctx = "value"

(***************************************************************************)
(* C9: a logical variant plans successfully over a physical struct of      *)
(* exactly the binary fields metadata and value, in either order, and      *)
(* fails with the shredding error over a struct of three fields, a struct  *)
(* of two fields with other names, or a type that is not a struct; the     *)
(* same holds for a variant inside a struct, as an array element and as a  *)
(* map value.                                                              *)
(***************************************************************************)
Variants == {w \in Walked : w.l = unshredded_variant}

VariantAccepted(pf) ==
    /\ pf.type.k = "struct"
    /\ Len(pf.type.fields) = 2
    /\ {pf.type.fields[1].name, pf.type.fields[2].name} = {"metadata", "value"}
    /\ pf.type.fields[1].type = Binary
    /\ pf.type.fields[2].type = Binary

VariantRejected(pf) ==
    \/ pf.type.k # "struct"
    \/ pf.type.k = "struct" /\ Len(pf.type.fields) = 3
    \/ /\ pf.type.k = "struct"
       /\ Len(pf.type.fields) = 2
       /\ {pf.type.fields[1].name, pf.type.fields[2].name} # {"metadata", "value"}

\* the two schemas agree field by field everywhere but below the variants
RECURSIVE SameUpToVariants(_, _)
RECURSIVE SameTypeUpToVariants(_, _)
SameUpToVariants(lfields, pfields) ==
    /\ Len(lfields) = Len(pfields)
    /\ \A i \in 1..Len(lfields) :
          /\ lfields[i].name = pfields[i].name
          /\ SameTypeUpToVariants(lfields[i].type, pfields[i].type)
SameTypeUpToVariants(lt, pt) ==
    CASE lt.k = "prim" -> pt = KernelPrimToArrow(lt.t)
      [] lt.k = "variant" -> TRUE
      [] lt.k = "struct" -> pt.k = "struct" /\ SameUpToVariants(lt.fields, pt.fields)
      [] lt.k = "array" ->
            pt.k = "list" /\ SameTypeUpToVariants(lt.element_type, pt.field.type)
      [] OTHER ->
            /\ pt.k = "map"
            /\ pt.field.type.k = "struct"
            /\ Len(pt.field.type.fields) = 2
            /\ SameTypeUpToVariants(lt.key_type, pt.field.type.fields[1].type)
            /\ SameTypeUpToVariants(lt.value_type, pt.field.type.fields[2].type)

C9_VariantShapeDecides ==
    /\ PlanReturned /\ (\E w \in Variants : VariantRejected(w.p)) =>
          pc = "plan_failed" /\ planned.err.kind = "variant_shredded"
    /\ PlanReturned /\ SameUpToVariants(requested, parquet)
          /\ (\A w \in Variants : VariantAccepted(w.p)) => Planned

C9_Witness ==
    /\ pc = "planned"
    /\ SameUpToVariants(requested, parquet)
    /\ \E w \in Variants :
          /\ w.ctx = "value"
          /\ VariantAccepted(w.p)
          /\ w.p.type.fields[1].name = "value"

(***************************************************************************)
(* C10: after fix_nested_null_masks every column reached from the root     *)
(* through structs only is NULL at a row iff its own null buffer or the    *)
(* null buffer of one of the structs above it, the root included, had the  *)
(* row NULL in the input; with parent nulls [F,T,T,T,T] and child nulls    *)
(* [F,F,F,T,T] the child ends with [F,T,T,T,T].                            *)
(***************************************************************************)
\* the positions of the columns below structs only; a path lists column
\* positions from the root
RECURSIVE StructLeafPaths(_)
StructLeafPaths(sa) ==
    UNION {IF sa.cols[i].k = "struct"
           THEN {<<i>> \o p : p \in StructLeafPaths(sa.cols[i])}
           ELSE {<<i>>} : i \in 1..Len(sa.cols)}

RECURSIVE ColAt(_, _)
ColAt(a, path) == IF path = <<>> THEN a ELSE ColAt(a.cols[Head(path)], Tail(path))

NullInInput(path, row) ==
    \E k \in 0..Len(path) : IsNullAt(ColAt(nb.in, SubSeq(path, 1, k)).nulls, row)

C10_LeafNullIffOwnOrAncestor ==
    pc = "nulls_fixed" =>
        /\ \A path \in StructLeafPaths(nb.in) : \A row \in 1..nb.in.len :
              IsNullAt(ColAt(nb.out, path).nulls, row) <=> NullInInput(path, row)
        /\ nb.in = ExampleBatch =>
              ColAt(nb.out, <<1, 1>>).nulls = SomeNulls(<<FALSE, TRUE, TRUE, TRUE, TRUE>>)

C10_Witness ==
    /\ pc = "nulls_fixed"
    /\ nb.in = ExampleBatch
    /\ ColAt(nb.in, <<1>>).nulls = SomeNulls(ExampleParentNulls)
    /\ ColAt(nb.in, <<1, 1>>).nulls = SomeNulls(ExampleChildNulls)
    /\ ColAt(nb.out, <<1, 1>>).nulls = SomeNulls(ExampleParentNulls)

(***************************************************************************)
(* C11: fix_nested_null_masks only adds NULL rows: every column at every   *)
(* depth, struct or not, that is NULL at a row of the input is NULL at     *)
(* that row of the output, and the fields, the number of columns, the      *)
(* number of rows and the value buffers are those of the input.            *)
(***************************************************************************)
WithoutNulls(a) == [a EXCEPT !.nulls = NoNulls]

RECURSIVE NullsOnlyGrow(_, _)
NullsOnlyGrow(in, out) ==
    /\ out.k = in.k
    /\ out.len = in.len
    /\ \A row \in 1..in.len : IsNullAt(in.nulls, row) => IsNullAt(out.nulls, row)
    /\ CASE in.k = "struct" ->
               /\ out.fields = in.fields
               /\ Len(out.cols) = Len(in.cols)
               /\ \A i \in 1..Len(in.cols) : NullsOnlyGrow(in.cols[i], out.cols[i])
         [] OTHER -> WithoutNulls(out) = WithoutNulls(in)

C11_NullsOnlyGrow ==
    pc \in {"nulls_fixed", "nulls_refixed"} => NullsOnlyGrow(nb.in, nb.out)

C11_Witness ==
    /\ pc = "nulls_fixed"
    /\ nb.in.len = MaxNullRows
    /\ Len(nb.in.cols) = 2
    /\ IsNullAt(nb.in.cols[2].nulls, 1)
    /\ ~IsNullAt(nb.in.cols[2].cols[1].nulls, 1)
    /\ IsNullAt(nb.out.cols[2].cols[1].nulls, 1)
    /\ nb.in.nulls.some
    /\ ~IsNullAt(nb.in.nulls, 1)

(***************************************************************************)
(* C12: fix_nested_null_masks applied to its own result returns that       *)
(* result, null buffers at every level included, also for batches of zero  *)
(* rows and of zero columns.                                               *)
(***************************************************************************)
C12_FixIsIdempotent ==
    pc = "nulls_refixed" => nb.again = nb.out

C12_Witness ==
    /\ pc = "nulls_refixed"
    /\ nb.out # nb.in
    /\ nb.again = nb.out
    /\ nb.in.cols[1].k = "struct"
    /\ nb.in.cols[1].cols[1].k = "list"

(***************************************************************************)
(* C13: for a requested primitive field matched to a primitive parquet     *)
(* field the plan holds Identity exactly when the two types are the same,  *)
(* Cast to the requested type exactly when the parquet type widens to it   *)
(* (int32 to long, float32 to double), and planning fails with the         *)
(* datatype error for every other pairing; in the two cases that plan, the *)
(* leaf index of the field is in the mask.                                 *)
(***************************************************************************)
\* the pairings <<kernel type, arrow type>> as the claim classifies them
ClaimedIdentical ==
    {<<"integer", "int32">>, <<"long", "int64">>, <<"string", "utf8">>,
     <<"binary", "binary">>, <<"float", "float32">>, <<"double", "float64">>}
ClaimedWiden == {<<"long", "int32">>, <<"double", "float32">>}
ClaimedTarget(t) ==
    CASE t = "long" -> Int64
      [] OTHER -> Float64

PrimitivePairs ==
    {w \in Walked : w.l.k = "prim" /\ w.p.type.k = "prim" /\ w.ctx \in {"top", "struct"}}

\* the leaf index of the field named n of a level that starts at leaf start
LeafIndexOf(pfields, n, start) ==
    LET pos == CHOOSE i \in 1..Len(pfields) : pfields[i].name = n
    IN  start + SumCols(SubSeq(pfields, 1, pos - 1), 1)

RECURSIVE PrimitiveNodesOk(_, _, _, _)
PrimitiveNodesOk(plan, lfields, pfields, start) ==
    \A i \in 1..Len(plan) :
        plan[i].transform.k # "missing" /\ plan[i].index < Len(lfields) =>
            LET lf == lfields[plan[i].index + 1]
                pf == FieldNamed(pfields, lf.name)
                pair == <<lf.type.t, pf.type.t>>
            IN  IF lf.type.k = "prim" /\ pf.type.k = "prim"
                THEN /\ pair \in ClaimedIdentical =>
                            plan[i] = ReorderIdentity(plan[i].index)
                     /\ pair \in ClaimedWiden =>
                            plan[i] = ReorderCast(plan[i].index, ClaimedTarget(lf.type.t))
                     /\ pair \in ClaimedIdentical \cup ClaimedWiden
                     /\ \E m \in 1..Len(planned.mask_indices) :
                            planned.mask_indices[m] = LeafIndexOf(pfields, lf.name, start)
                ELSE lf.type.k = "struct" /\ pf.type.k = "struct"
                        /\ plan[i].transform.k = "nested" =>
                            PrimitiveNodesOk(plan[i].transform.children, lf.type.fields,
                                             pf.type.fields,
                                             LeafIndexOf(pfields, lf.name, start))

C13_PrimitiveClassification ==
    /\ Planned => PrimitiveNodesOk(planned.reorder, requested, parquet, 0)
    /\ PlanReturned
          /\ (\E w \in PrimitivePairs :
                 <<w.l.t, w.p.type.t>> \notin ClaimedIdentical \cup ClaimedWiden)
          => pc = "plan_failed"
    /\ PlanReturned /\ requested \in PrimRequested /\ parquet \in PrimParquet
          /\ (\A w \in PrimitivePairs :
                 <<w.l.t, w.p.type.t>> \in ClaimedIdentical \cup ClaimedWiden)
          /\ (\A lev \in Levels(requested, parquet) :
                 \A j \in Unmatched(lev) : lev.l[j].nullable)
          => Planned

C13_Witness ==
    /\ pc = "planned"
    /\ requested = <<StructField("a", KStruct(<<StructField("f", DT_DOUBLE, TRUE)>>), TRUE)>>
    /\ planned.reorder = <<ReorderNested(0, <<ReorderCast(0, Float64)>>)>>
    /\ planned.mask_indices = <<1>>

(***************************************************************************)
(* C14: the error of a failed planning carries the path, from the root of  *)
(* the schema, of the field it is about, for each of: a required field     *)
(* that is missing, an incompatible primitive type, a container that does  *)
(* not match, a variant of the wrong shape, a map of the wrong shape.      *)
(***************************************************************************)
\* what the error names: the field name put in its message, if any
ErrorPath(e) == IF e.name = "" THEN <<>> ELSE <<e.name>>

\* the fields planning can fail at, each with its path from the root and
\* the kind of the failure
RECURSIVE Offenders(_, _, _)
OffendersBelow(lf, pf, path) ==
    IF lf.type = unshredded_variant /\ ~validate_parquet_variant(pf)
    THEN {[kind |-> "variant_shredded", path |-> path]}
    ELSE CASE pf.type.k = "struct" ->
                 IF lf.type.k \in {"struct", "variant"}
                 THEN Offenders(lf.type.fields, pf.type.fields, path)
                 ELSE {[kind |-> "unexpected_column_type", path |-> path]}
           [] pf.type.k = "list" ->
                 IF lf.type.k = "array"
                 THEN Offenders(<<StructField(pf.type.field.name, lf.type.element_type,
                                              lf.type.contains_null)>>,
                                <<pf.type.field>>, path)
                 ELSE {[kind |-> "unexpected_column_type", path |-> path]}
           [] pf.type.k = "map" ->
                 IF lf.type.k = "map" /\ pf.type.field.type.k = "struct"
                 THEN IF Len(pf.type.field.type.fields) # 2
                      THEN {[kind |-> k, path |-> path] : k \in MapShapeErrors}
                      ELSE LET sub == SubLevel(lf.type, pf.type)
                           IN  Offenders(sub.l, sub.p, path)
                 ELSE {[kind |-> "unexpected_column_type", path |-> path]}
           [] OTHER ->
                 IF lf.type.k = "prim"
                    /\ <<lf.type.t, pf.type.t>> \in ClaimedIdentical \cup ClaimedWiden
                 THEN {}
                 ELSE {[kind |-> "incorrect_datatype", path |-> path]}
Offenders(lfields, pfields, prefix) ==
    UNION {IF HasName(lfields, pfields[i].name)
           THEN OffendersBelow(FieldNamed(lfields, pfields[i].name), pfields[i],
                               Append(prefix, pfields[i].name))
           ELSE {} : i \in 1..Len(pfields)}
    \cup {[kind |-> "missing_not_nullable", path |-> Append(prefix, lfields[j].name)] :
             j \in {n \in 1..Len(lfields) :
                       ~HasName(pfields, lfields[n].name) /\ ~lfields[n].nullable}}

C14_ErrorCarriesPath ==
    pc = "plan_failed" =>
        \E o \in Offenders(requested, parquet, <<>>) :
            o.kind = planned.err.kind /\ o.path = ErrorPath(planned.err)

\* the weaker fact: every failure is at one of those fields and of its kind
C14_ErrorIsAtAnOffender ==
    pc = "plan_failed" =>
        \E o \in Offenders(requested, parquet, <<>>) : o.kind = planned.err.kind

(***************************************************************************)
(* C15: when the struct being reshaped has more or fewer columns than the  *)
(* plan has nodes that consume an input column, reorder_struct_array       *)
(* returns an internal error: no batch and no panic.                       *)
(***************************************************************************)
Consuming(plan) == SelectSeq(plan, LAMBDA ri : ri.transform.k # "missing")
InternalErrors == {"internal_nested_reorder", "internal_list_child", "internal_none_slot"}

CountMismatch == Len(batch.cols) # Len(Consuming(planned.reorder))

C15_CountMismatchIsInternalError ==
    pc = "reorder_done" /\ CountMismatch =>
        ~shaped.panic /\ shaped.err.kind \in InternalErrors

RECURSIVE NullStructsCoverChildren(_)
NullStructsCoverChildren(sa) ==
    \A i \in 1..Len(sa.cols) :
        /\ \A row \in 1..sa.len :
              IsNullAt(sa.nulls, row) => IsNullAt(sa.cols[i].nulls, row)
        /\ sa.cols[i].k = "struct" => NullStructsCoverChildren(sa.cols[i])

C17_FixupReordersThenRepairs ==
    pc = "done" =>
        /\ IsOk(shaped) =>
              /\ final = Ok(fix_nested_null_masks(shaped.val))
              /\ NullStructsCoverChildren(final.val)
        /\ ~IsOk(shaped) =>
              /\ ~final.panic
              /\ final.err = shaped.err
              /\ final.err # NoError
              /\ final.val = <<>>

\* the weaker fact: a batch that is returned is repaired, and a reorder that
\* does not return a batch ends the call the way the reorder ended
C17_ReturnedBatchIsRepaired ==
    pc = "done" =>
        /\ IsOk(shaped) =>
              /\ final = Ok(fix_nested_null_masks(shaped.val))
              /\ NullStructsCoverChildren(final.val)
        /\ ~IsOk(shaped) => final = shaped /\ final.val = <<>>

C17_Witness ==
    /\ pc = "done"
    /\ IsOk(final)
    /\ \E i \in 1..Len(planned.reorder) :
          LET ri == planned.reorder[i]
              out == final.val.cols[ri.index + 1]
          IN  /\ ri.transform.k = "nested"
              /\ out.k = "struct"
              /\ IsNullAt(out.nulls, 1)
              /\ \E c \in 1..Len(ri.transform.children) :
                    ri.transform.children[c].transform.k = "cast"
              /\ \E c \in 1..Len(ri.transform.children) :
                    ri.transform.children[c].transform.k = "missing"
              /\ \E c \in 1..Len(out.cols) :
                    /\ ~IsNullAt(shaped.val.cols[ri.index + 1].cols[c].nulls, 1)
                    /\ IsNullAt(out.cols[c].nulls, 1)

(***************************************************************************)
(* C18: ordering_needs_transform answers false exactly when every node of  *)
(* the level is Identity or a Nested node whose children need no           *)
(* transform and the targets are strictly ascending in plan order; so it   *)
(* answers true when a node is Cast or Missing, when two adjacent nodes    *)
(* have index[i] >= index[i+1], or when a nested level needs a transform,  *)
(* and false for an empty level.                                           *)
(***************************************************************************)
RECURSIVE NoTransformAsClaimed(_)
NoTransformAsClaimed(plan) ==
    /\ \A i \in 1..Len(plan) :
          \/ plan[i].transform.k = "identity"
          \/ /\ plan[i].transform.k = "nested"
             /\ NoTransformAsClaimed(plan[i].transform.children)
    /\ \A i \in 1..(Len(plan) - 1) : plan[i].index < plan[i + 1].index

C18_NeedsTransformIffClaimed ==
    pc = "ordering_done" =>
        /\ answer.value = ~NoTransformAsClaimed(planned.reorder)
        /\ planned.reorder = <<>> => ~answer.value
        /\ (\E i \in 1..Len(planned.reorder) :
               planned.reorder[i].transform.k \in {"cast", "missing"}) => answer.value

C18_Witness ==
    /\ pc = "ordering_done"
    /\ answer.value
    /\ Len(planned.reorder) = MaxPlanLen
    /\ \A i \in 1..Len(planned.reorder) : planned.reorder[i].transform.k = "identity"
    /\ planned.reorder[1].index < planned.reorder[2].index
    /\ planned.reorder[2].index = planned.reorder[3].index

(***************************************************************************)
(* C19: when the plan needs no transform, reorder_struct_array returns the *)
(* struct it was given, fields, columns and null buffer unchanged, and     *)
(* that is also what the slot filling path returns for the same plan and   *)
(* struct whenever the struct has as many columns as the plan has nodes.   *)
(***************************************************************************)
C19_FastPathEqualsSlotFilling ==
    pc = "done" /\ ~ordering_needs_transform(planned.reorder) =>
        /\ shaped = Ok(batch)
        /\ Len(batch.cols) = Len(planned.reorder) =>
              SlotFilling(batch, planned.reorder) = Ok(batch)

\* the first half alone
C19_FastPathReturnsInput ==
    pc = "done" /\ ~ordering_needs_transform(planned.reorder) => shaped = Ok(batch)

\* the second half for plans of Identity nodes on at least one column
C19_SlotFillingOfIdentities ==
    pc = "done" /\ ~ordering_needs_transform(planned.reorder)
        /\ planned.reorder # <<>>
        /\ Len(batch.cols) = Len(planned.reorder)
        /\ (\A i \in 1..Len(planned.reorder) :
               planned.reorder[i].transform.k = "identity")
        => SlotFilling(batch, planned.reorder) = Ok(batch)

(***************************************************************************)
(* C20: a map field yields exactly two child plans, one for the key and    *)
(* one for the value.  When neither needs a transform the node of the map  *)
(* is Identity at the map's target; otherwise it is Nested at the map's    *)
(* target over [key plan, value plan], a child that needs no transform     *)
(* being replaced by Identity(0) (key) or Identity(1) (value).  The leaves *)
(* of the key and of the value are in the mask in either case.             *)
(***************************************************************************)
WellFormedMap(lf, pf) ==
    /\ lf.type.k = "map" /\ pf.type.k = "map"
    /\ pf.type.field.type.k = "struct"
    /\ Len(pf.type.field.type.fields) = 2

InMask(leaf) ==
    \E m \in 1..Len(planned.mask_indices) : planned.mask_indices[m] = leaf

\* the node the claim gives a map at target index with child plans kp and vp
ClaimedMapNode(index, kp, vp) ==
    IF ~needs_transform(kp) /\ ~needs_transform(vp)
    THEN ReorderIdentity(index)
    ELSE ReorderNested(index,
            <<IF needs_transform(kp) THEN kp ELSE ReorderIdentity(0),
              IF needs_transform(vp) THEN vp ELSE ReorderIdentity(1)>>)

RECURSIVE MapNodesOk(_, _, _, _)
MapNodesOk(plan, lfields, pfields, start) ==
    /\ \A j \in 1..Len(lfields) :
           (\E q \in 1..Len(pfields) : pfields[q].name = lfields[j].name)
              /\ WellFormedMap(lfields[j], FieldNamed(pfields, lfields[j].name))
              => \E i \in 1..Len(plan) :
                    plan[i].index = j - 1 /\ plan[i].transform.k # "missing"
    /\ \A i \in 1..Len(plan) :
        plan[i].transform.k # "missing" /\ plan[i].index < Len(lfields) =>
            LET lf == lfields[plan[i].index + 1]
                pf == FieldNamed(pfields, lf.name)
                here == LeafIndexOf(pfields, lf.name, start)
            IN  IF WellFormedMap(lf, pf)
                THEN LET inner == pf.type.field.type.fields
                         sch == as_struct_schema(lf.type, inner[1].name, inner[2].name)
                         r == get_indices(here, sch, inner, <<>>)
                     IN  /\ r.err = NoError
                         /\ Len(r.reorder) = 2
                         /\ r.reorder[1].index = 0 /\ r.reorder[2].index = 1
                         /\ plan[i] = ClaimedMapNode(plan[i].index,
                                                     r.reorder[1], r.reorder[2])
                         /\ \A m \in 1..Len(r.mask_indices) : InMask(r.mask_indices[m])
                         /\ inner[1].type.k = "prim" => InMask(here)
                         /\ inner[2].type.k = "prim" => InMask(here + count_cols(inner[1]))
                         /\ plan[i].transform.k = "nested" =>
                                MapNodesOk(plan[i].transform.children, sch, inner, here)
                ELSE lf.type.k = "struct" /\ pf.type.k = "struct"
                        /\ plan[i].transform.k = "nested" =>
                            MapNodesOk(plan[i].transform.children, lf.type.fields,
                                       pf.type.fields, here)

C20_MapCollapse == Planned => MapNodesOk(planned.reorder, requested, parquet, 0)

C20_Witness ==
    /\ pc = "planned"
    /\ \E i \in 1..Len(planned.reorder) :
           /\ planned.reorder[i].transform.k = "nested"
           /\ WellFormedMap(requested[planned.reorder[i].index + 1],
                            FieldNamed(parquet, requested[planned.reorder[i].index + 1].name))
           /\ planned.reorder[i].transform.children[1] = ReorderIdentity(0)
           /\ planned.reorder[i].transform.children[2].transform.k = "nested"

(***************************************************************************)
(* C21: for a matched array over a physical list, the recursion over the   *)
(* one-field level wrapping the element yields exactly one node, and that  *)
(* node, with its index rewritten to the array's target, is the array's    *)
(* node: no Nested level is added for the list itself.  An array of        *)
(* primitives gives a node that is not Nested, an array of structs gives   *)
(* Nested(array target, plan of the element struct's fields), and the      *)
(* element's leaves are counted in the leaf index space of the whole file. *)
(***************************************************************************)
MatchedList(lf, pf) == lf.type.k = "array" /\ pf.type.k = "list"

RECURSIVE ListNodesOk(_, _, _, _)
ListNodesOk(plan, lfields, pfields, start) ==
    /\ \A j \in 1..Len(lfields) :
           (\E q \in 1..Len(pfields) : pfields[q].name = lfields[j].name)
              /\ MatchedList(lfields[j], FieldNamed(pfields, lfields[j].name))
              => Cardinality({i \in 1..Len(plan) : plan[i].index = j - 1}) = 1
    /\ \A i \in 1..Len(plan) :
        plan[i].transform.k # "missing" /\ plan[i].index < Len(lfields) =>
            LET lf == lfields[plan[i].index + 1]
                pf == FieldNamed(pfields, lf.name)
                here == LeafIndexOf(pfields, lf.name, start)
            IN  IF MatchedList(lf, pf)
                THEN LET elem == lf.type.element_type
                         pelem == pf.type.field
                         r == get_indices(here,
                                  <<StructField(pelem.name, elem, lf.type.contains_null)>>,
                                  <<pelem>>, <<>>)
                     IN  /\ r.err = NoError
                         /\ Len(r.reorder) = 1
                         /\ plan[i] = [r.reorder[1] EXCEPT !.index = plan[i].index]
                         /\ \A m \in 1..Len(r.mask_indices) : InMask(r.mask_indices[m])
                         /\ elem.k = "prim" =>
                                /\ plan[i].transform.k \in {"identity", "cast"}
                                /\ InMask(here)
                         /\ elem.k = "struct" /\ pelem.type.k = "struct" =>
                                /\ plan[i] = ReorderNested(plan[i].index,
                                       get_indices(here, elem.fields, pelem.type.fields,
                                                   <<>>).reorder)
                                /\ ListNodesOk(plan[i].transform.children, elem.fields,
                                               pelem.type.fields, here)
                ELSE lf.type.k = "struct" /\ pf.type.k = "struct"
                        /\ plan[i].transform.k = "nested" =>
                            ListNodesOk(plan[i].transform.children, lf.type.fields,
                                        pf.type.fields, here)

C21_ListChildEmittedDirectly ==
    Planned => ListNodesOk(planned.reorder, requested, parquet, 0)

C21_Witness ==
    /\ pc = "planned"
    /\ \E i \in 1..Len(planned.reorder) :
           LET lf == requested[planned.reorder[i].index + 1] IN
           /\ MatchedList(lf, FieldNamed(parquet, lf.name))
           /\ lf.type.element_type.k = "struct"
           /\ planned.reorder[i].index # i - 1
           /\ planned.reorder[i].transform.k = "nested"
           /\ Len(planned.reorder[i].transform.children) = 2
           /\ LeafIndexOf(parquet, lf.name, 0) > 0

(***************************************************************************)
(* C22: when reorder_struct_array takes the general path and returns a     *)
(* struct, no container's null information has changed: the struct has the *)
(* input struct's validity buffer, a list under a Nested node has the      *)
(* input list's offsets and validity buffer, and a map under a Nested node *)
(* has the input map's offsets, ordering flag and validity buffer; this    *)
(* holds again for the containers below them.                              *)
(***************************************************************************)
RECURSIVE ContainersKept(_, _, _)
ContainersKept(in, out, plan) ==
    /\ out.nulls = in.nulls
    /\ out.len = in.len
    /\ \A i \in 1..Len(plan) :
           plan[i].transform.k = "nested" /\ i <= Len(in.cols) =>
               /\ plan[i].index + 1 <= Len(out.cols)
               /\ LET ci == in.cols[i]
                      co == out.cols[plan[i].index + 1]
                      children == plan[i].transform.children
                  IN  /\ co.k = ci.k
                      /\ CASE ci.k = "struct" -> ContainersKept(ci, co, children)
                            [] ci.k = "list" ->
                                  /\ co.offsets = ci.offsets
                                  /\ co.nulls = ci.nulls
                                  /\ co.len = ci.len
                                  /\ ContainersKept(ci.values, co.values, children)
                            [] ci.k = "map" ->
                                  /\ co.offsets = ci.offsets
                                  /\ co.ordered = ci.ordered
                                  /\ co.nulls = ci.nulls
                                  /\ co.len = ci.len
                                  /\ ContainersKept(ci.entries, co.entries, children)
                            [] OTHER -> FALSE

C22_ContainerNullsUnchanged ==
    pc = "done" /\ ~FastPath(planned.reorder) /\ IsOk(shaped)
        => ContainersKept(batch, shaped.val, planned.reorder)

\* a column under a Nested node that has NULL rows and was rebuilt
RebuiltWithNulls(kind) ==
    /\ pc = "done" /\ ~FastPath(planned.reorder) /\ IsOk(shaped)
    /\ \E i \in 1..Len(planned.reorder) :
           /\ planned.reorder[i].transform.k = "nested"
           /\ needs_transform(planned.reorder[i])
           /\ batch.cols[i].k = kind
           /\ null_count(batch.cols[i]) > 0

C22_Witness == RebuiltWithNulls("list")

(***************************************************************************)
(* reorder_struct_array on plans that need not come from the planner: any  *)
(* sequence of nodes, among them sequences in which two nodes carry the    *)
(* same target.                                                            *)
(***************************************************************************)
MaxSlotPlanLen == 3

SlotNodes ==
    {ReorderIdentity(0), ReorderIdentity(1), ReorderIdentity(2),
     ReorderCast(0, Int64), ReorderCast(1, Int64),
     ReorderMissing(1, PY), ReorderMissing(2, PY)}

SlotPlans == UNION {[1..n -> SlotNodes] : n \in 0..MaxSlotPlanLen}

InitSlots ==
    /\ pc = "reorder_start"
    /\ requested = <<>>
    /\ parquet = <<>>
    /\ \E o \in SlotPlans : planned = [NoPlan EXCEPT !.reorder = o]
    /\ batch = NoBatch
    /\ shaped = Ok(NoBatch)
    /\ final = Ok(NoBatch)
    /\ nb = NoNullRun
    /\ answer = NoAnswer
    /\ reader = NoReader

SpecSlots == InitSlots /\ [][NextReorder]_vars

(***************************************************************************)
(* C23: on the general path, when every node of the plan was processed and *)
(* some slot is still unfilled (two nodes carried the same target, say),   *)
(* reorder_struct_array returns an internal error and no batch; it returns *)
(* a batch only when every slot 0..Len(plan)-1 was filled.                 *)
(***************************************************************************)
Targets(plan) == {plan[i].index : i \in 1..Len(plan)}

\* some slot is the target of no node
UnfilledSlot(plan) == \E k \in 0..(Len(plan) - 1) : k \notin Targets(plan)

\* every node of the plan can be processed on the batch b
AllProcessed(plan, b) ==
    \A i \in 1..Len(plan) :
        /\ plan[i].index < Len(plan)
        /\ plan[i].transform.k # "missing" => i <= Len(b.cols)
        /\ plan[i].transform.k = "cast" /\ i <= Len(b.cols) =>
               arrow_cast(b.cols[i], plan[i].transform.target).err = NoError

C23_UnfilledSlotIsInternalError ==
    pc = "reorder_done" /\ ~FastPath(planned.reorder) =>
        /\ UnfilledSlot(planned.reorder) /\ AllProcessed(planned.reorder, batch)
              => /\ ~IsOk(shaped) /\ ~shaped.panic
                 /\ shaped.err.kind \in InternalErrors
                 /\ shaped.err = MkError("internal_none_slot", "")
        /\ IsOk(shaped) =>
              /\ Targets(planned.reorder) = 0..(Len(planned.reorder) - 1)
              /\ Len(shaped.val.cols) = Len(planned.reorder)

C23_Witness ==
    /\ pc = "reorder_done"
    /\ planned.reorder = <<ReorderIdentity(1), ReorderCast(1, Int64)>>
    /\ Len(batch.cols) = 2
    /\ shaped = Err(MkError("internal_none_slot", ""))

(***************************************************************************)
(* C24: for every plan the planner returns, at every level the number of   *)
(* nodes that are not Missing equals the number of fields the decoder      *)
(* yields at that level under the plan's projection (a primitive field iff *)
(* its leaf is projected, a nested field iff one of its leaves is), also   *)
(* for a matched struct all of whose requested children are absent from    *)
(* the file and nullable.                                                  *)
(***************************************************************************)
\* the struct whose columns the children of a Nested node are applied to
RECURSIVE StructBelow(_)
StructBelow(col) ==
    CASE col.k = "struct" -> col
      [] col.k = "list" -> StructBelow(col.values)
      [] col.k = "map" -> col.entries
      [] OTHER -> NoBatch

RECURSIVE LevelCountsOk(_, _)
LevelCountsOk(plan, sa) ==
    LET c == Consuming(plan) IN
    /\ Len(c) = Len(sa.cols)
    /\ \A i \in 1..Len(c) :
           c[i].transform.k = "nested" =>
               LevelCountsOk(c[i].transform.children, StructBelow(sa.cols[i]))

C24_NodeCountMatchesDecoded ==
    pc \in {"decoded", "done"} => LevelCountsOk(planned.reorder, batch)

\* some Nested node, at any depth, has children that are all Missing
RECURSIVE HasAllMissingNode(_)
HasAllMissingNode(plan) ==
    \E i \in 1..Len(plan) :
        /\ plan[i].transform.k = "nested"
        /\ \/ Consuming(plan[i].transform.children) = <<>>
           \/ HasAllMissingNode(plan[i].transform.children)

\* the counts differ exactly for the plans with such a node
C24_CountsDifferIffAllMissingNode ==
    pc \in {"decoded", "done"} =>
        (LevelCountsOk(planned.reorder, batch) <=> ~HasAllMissingNode(planned.reorder))

\* the plan of a struct none of whose requested children is in the file
C24_Witness ==
    /\ pc = "decoded"
    /\ \E i \in 1..Len(planned.reorder) :
           /\ planned.reorder[i].transform.k = "nested"
           /\ planned.reorder[i].transform.children # <<>>
           /\ Consuming(planned.reorder[i].transform.children) = <<>>
    /\ Len(Consuming(planned.reorder)) > Len(batch.cols)

(***************************************************************************)
(* C25: collapsing the node of a map cannot be observed: reshaping a batch *)
(* with the plan the planner returns gives the same result as reshaping it *)
(* with the plan in which every map has the node                           *)
(* Nested(target, [key plan, value plan]).                                 *)
(***************************************************************************)
\* the plan with the node of every map, at the top level, inside structs and
\* inside the keys and values of maps, replaced by its uncollapsed form
RECURSIVE Uncollapsed(_, _, _, _)
Uncollapsed(plan, lfields, pfields, start) ==
    [i \in 1..Len(plan) |->
        IF plan[i].transform.k = "missing" \/ plan[i].index >= Len(lfields)
        THEN plan[i]
        ELSE LET lf == lfields[plan[i].index + 1]
                 pf == FieldNamed(pfields, lf.name)
                 here == LeafIndexOf(pfields, lf.name, start)
             IN  IF WellFormedMap(lf, pf)
                 THEN LET inner == pf.type.field.type.fields
                          sch == as_struct_schema(lf.type, inner[1].name, inner[2].name)
                          r == get_indices(here, sch, inner, <<>>)
                      IN  ReorderNested(plan[i].index,
                                        Uncollapsed(r.reorder, sch, inner, here))
                 ELSE IF lf.type.k = "struct" /\ pf.type.k = "struct"
                         /\ plan[i].transform.k = "nested"
                 THEN ReorderNested(plan[i].index,
                          Uncollapsed(plan[i].transform.children, lf.type.fields,
                                      pf.type.fields, here))
                 ELSE plan[i]]

UncollapsedPlan == Uncollapsed(planned.reorder, requested, parquet, 0)

C25_CollapseIsUnobservable ==
    pc = "done" => reorder_struct_array(batch, UncollapsedPlan) = shaped

\* when the returned plan needs no transform, neither does the uncollapsed one
C25_SameWithoutTransform ==
    pc = "done" /\ FastPath(planned.reorder) =>
        /\ FastPath(UncollapsedPlan)
        /\ reorder_struct_array(batch, UncollapsedPlan) = shaped

C25_Witness ==
    /\ pc = "done"
    /\ UncollapsedPlan # planned.reorder
    /\ ~FastPath(planned.reorder)
    /\ IsOk(shaped)

(***************************************************************************)
(* C26: a requested variant over a physical struct that passes validation  *)
(* is planned as a struct: its node is Nested over two Identity children,  *)
(* one per physical field, each carrying the position of that field in the *)
(* variant's (metadata, value).  For the physical order (metadata, value)  *)
(* the node needs no transform and the column is returned as decoded; for  *)
(* the physical order (value, metadata) the node needs a transform and the *)
(* returned column has the decoded children in the order (metadata,        *)
(* value).                                                                 *)
(***************************************************************************)
VariantPosition(n) == IF n = "metadata" THEN 0 ELSE 1

\* the node of a variant at target index over the physical struct field pf
VariantNode(index, pf) ==
    ReorderNested(index,
        <<ReorderIdentity(VariantPosition(pf.type.fields[1].name)),
          ReorderIdentity(VariantPosition(pf.type.fields[2].name))>>)

\* the node the claim states, whatever the physical order
VariantNodeAsDecoded(index) ==
    ReorderNested(index, <<ReorderIdentity(0), ReorderIdentity(1)>>)

RECURSIVE VariantNodesOk(_, _, _)
VariantNodesOk(plan, lfields, pfields) ==
    \A i \in 1..Len(plan) :
        plan[i].transform.k # "missing" /\ plan[i].index < Len(lfields) =>
            LET lf == lfields[plan[i].index + 1]
                pf == FieldNamed(pfields, lf.name)
            IN  IF lf.type = unshredded_variant
                THEN /\ VariantAccepted(pf)
                     /\ plan[i] = VariantNode(plan[i].index, pf)
                     /\ needs_transform(plan[i]) <=> pf.type.fields[1].name = "value"
                ELSE lf.type.k = "struct" /\ pf.type.k = "struct"
                        /\ plan[i].transform.k = "nested" =>
                            VariantNodesOk(plan[i].transform.children, lf.type.fields,
                                           pf.type.fields)

RECURSIVE VariantNodesAsDecoded(_, _, _)
VariantNodesAsDecoded(plan, lfields, pfields) ==
    \A i \in 1..Len(plan) :
        plan[i].transform.k # "missing" /\ plan[i].index < Len(lfields) =>
            LET lf == lfields[plan[i].index + 1]
                pf == FieldNamed(pfields, lf.name)
            IN  IF lf.type = unshredded_variant
                THEN /\ plan[i] = VariantNodeAsDecoded(plan[i].index)
                     /\ ~needs_transform(plan[i])
                ELSE lf.type.k = "struct" /\ pf.type.k = "struct"
                        /\ plan[i].transform.k = "nested" =>
                            VariantNodesAsDecoded(plan[i].transform.children,
                                                  lf.type.fields, pf.type.fields)

\* the column named n of a struct array
ChildNamed(sa, n) ==
    sa.cols[CHOOSE j \in 1..Len(sa.fields) : sa.fields[j].name = n]

\* the top-level variant columns of a returned batch
VariantColumnsOk ==
    \A i \in 1..Len(planned.reorder) :
        LET node == planned.reorder[i] IN
        node.transform.k # "missing"
           /\ requested[node.index + 1].type = unshredded_variant
           /\ i <= Len(batch.cols) /\ node.index < Len(shaped.val.cols)
        => LET ci == batch.cols[i]
               co == shaped.val.cols[node.index + 1]
           IN  /\ co.k = "struct"
               /\ co.nulls = ci.nulls
               /\ Len(co.cols) = 2
               /\ ChildNamed(co, "metadata") = ChildNamed(ci, "metadata")
               /\ ChildNamed(co, "value") = ChildNamed(ci, "value")
               /\ ci.fields[1].name = "metadata" => co = ci
               /\ ~FastPath(planned.reorder) =>
                      <<co.fields[1].name, co.fields[2].name>> = <<"metadata", "value">>

C26_VariantPlannedAsStruct ==
    /\ Planned => VariantNodesOk(planned.reorder, requested, parquet)
    /\ pc = "done" /\ IsOk(shaped) => VariantColumnsOk

C26_VariantPassthroughBothOrders ==
    Planned => VariantNodesAsDecoded(planned.reorder, requested, parquet)

C26_Witness ==
    /\ pc = "done" /\ IsOk(shaped)
    /\ \E i \in 1..Len(planned.reorder) :
           /\ requested[planned.reorder[i].index + 1].type = unshredded_variant
           /\ planned.reorder[i] =
                 ReorderNested(planned.reorder[i].index,
                               <<ReorderIdentity(1), ReorderIdentity(0)>>)
           /\ batch.cols[i].fields[1].name = "value"
           /\ shaped.val.cols[planned.reorder[i].index + 1].fields[1].name = "metadata"

(***************************************************************************)
(* C27: at every level of a returned plan the Missing nodes come after all *)
(* other nodes and the other nodes are in the file order of their fields;  *)
(* hence the k-th node of a level, k below the number of matched fields,   *)
(* describes the k-th decoded column of the level, the column that         *)
(* reorder_struct_array reads for it.                                      *)
(***************************************************************************)
PhysicalPosition(pfields, n) == CHOOSE j \in 1..Len(pfields) : pfields[j].name = n

\* Missing nodes last, the others in file order, at one level
LevelInFileOrder(plan, lfields, pfields) ==
    /\ \A i, j \in 1..Len(plan) :
           i < j /\ plan[i].transform.k = "missing" => plan[j].transform.k = "missing"
    /\ \A i, j \in 1..Len(plan) :
           i < j /\ plan[j].transform.k # "missing" =>
               PhysicalPosition(pfields, lfields[plan[i].index + 1].name)
                   < PhysicalPosition(pfields, lfields[plan[j].index + 1].name)

RECURSIVE PlanInFileOrder(_, _, _)
PlanInFileOrder(plan, lfields, pfields) ==
    /\ LevelInFileOrder(plan, lfields, pfields)
    /\ \A i \in 1..Len(plan) :
           plan[i].transform.k = "nested" =>
               LET lf == lfields[plan[i].index + 1]
                   pf == FieldNamed(pfields, lf.name)
               IN  /\ lf.type.k \in {"struct", "variant"} /\ pf.type.k = "struct" =>
                          PlanInFileOrder(plan[i].transform.children, lf.type.fields,
                                          pf.type.fields)
                   /\ WellFormedMap(lf, pf) =>
                          LET inner == pf.type.field.type.fields IN
                          PlanInFileOrder(plan[i].transform.children,
                              as_struct_schema(lf.type, inner[1].name, inner[2].name),
                              inner)
                   /\ MatchedList(lf, pf) /\ lf.type.element_type.k = "struct"
                         /\ pf.type.field.type.k = "struct" =>
                          PlanInFileOrder(plan[i].transform.children,
                              lf.type.element_type.fields, pf.type.field.type.fields)

C27_MissingLastOthersInFileOrder ==
    Planned => PlanInFileOrder(planned.reorder, requested, parquet)

\* the requested fields the children of a Nested node over the column col refer to
RECURSIVE LogicalBelow(_, _)
LogicalBelow(lt, col) ==
    CASE lt.k \in {"struct", "variant"} -> lt.fields
      [] lt.k = "array" /\ col.k = "list" -> LogicalBelow(lt.element_type, col.values)
      [] lt.k = "map" /\ col.k = "map" /\ Len(col.entries.fields) = 2 ->
            as_struct_schema(lt, col.entries.fields[1].name, col.entries.fields[2].name)
      [] OTHER -> <<>>

\* the k-th node that is not Missing is about the k-th column of the struct sa
RECURSIVE NodesDescribeColumns(_, _, _)
NodesDescribeColumns(plan, lfields, sa) ==
    \A k \in 1..Len(Consuming(plan)) :
        /\ plan[k].transform.k # "missing"
        /\ k <= Len(sa.cols)
        /\ plan[k].index < Len(lfields)
        /\ sa.fields[k].name = lfields[plan[k].index + 1].name
        /\ plan[k].transform.k = "nested" =>
               NodesDescribeColumns(plan[k].transform.children,
                   LogicalBelow(lfields[plan[k].index + 1].type, sa.cols[k]),
                   StructBelow(sa.cols[k]))

C27_NodeDescribesDecodedColumn ==
    /\ Planned => PlanInFileOrder(planned.reorder, requested, parquet)
    /\ pc \in {"decoded", "done"} =>
          NodesDescribeColumns(planned.reorder, requested, batch)

\* apart from the plans with a Nested node over Missing children only
C27_DescribesUnlessAllMissingNode ==
    pc \in {"decoded", "done"} /\ ~HasAllMissingNode(planned.reorder) =>
        NodesDescribeColumns(planned.reorder, requested, batch)

C27_Witness ==
    /\ pc = "decoded"
    /\ Len(planned.reorder) = 2
    /\ planned.reorder[1].transform.k = "nested"
    /\ Consuming(planned.reorder[1].transform.children) = <<>>
    /\ planned.reorder[2].transform.k = "identity"
    /\ Len(batch.cols) = 1
    /\ batch.fields[1].name = requested[planned.reorder[2].index + 1].name

(***************************************************************************)
(* C28: when the element type of a requested array is a safe widening of   *)
(* the element type of the physical list (array<long> over list<int32>),   *)
(* planning succeeds and reshaping returns a list column whose elements    *)
(* are cast to the requested element type, with the offsets and the        *)
(* validity buffer of the decoded list: the Cast is applied to the         *)
(* elements, and reshaping does not fail.                                  *)
(***************************************************************************)
\* top-level arrays of primitives whose element type is widened
WidenedLists ==
    {j \in 1..Len(requested) :
        /\ \E q \in 1..Len(parquet) : parquet[q].name = requested[j].name
        /\ MatchedList(requested[j], FieldNamed(parquet, requested[j].name))
        /\ requested[j].type.element_type.k = "prim"
        /\ FieldNamed(parquet, requested[j].name).type.field.type.k = "prim"
        /\ <<FieldNamed(parquet, requested[j].name).type.field.type.t,
              KernelPrimToArrow(requested[j].type.element_type.t).t>> \in SafeWiden}

\* no other field of the request stands in the way of planning and reshaping
OnlyWidenedLists ==
    /\ WidenedLists # {}
    /\ Len(requested) = Len(parquet)
    /\ \A j \in 1..Len(requested) :
           /\ requested[j].name = parquet[j].name
           /\ j \notin WidenedLists =>
                  /\ requested[j].type.k = "prim"
                  /\ parquet[j].type = KernelPrimToArrow(requested[j].type.t)

C28_WidenedListIsCastElementwise ==
    /\ PlanReturned /\ OnlyWidenedLists => Planned
    /\ pc = "done" /\ OnlyWidenedLists =>
          /\ IsOk(shaped)
          /\ \A j \in WidenedLists :
                 LET ci == batch.cols[j]
                     co == shaped.val.cols[j]
                 IN  /\ co.k = "list"
                     /\ co.offsets = ci.offsets
                     /\ co.nulls = ci.nulls
                     /\ co.values.k = "prim"
                     /\ co.values.t = KernelPrimToArrow(requested[j].type.element_type.t).t
                     /\ co.values.buf = ci.values.buf

C28_PlanSucceeds == PlanReturned /\ OnlyWidenedLists => Planned

C28_Witness ==
    /\ pc = "done"
    /\ OnlyWidenedLists
    /\ planned.reorder[1] = ReorderCast(0, Int64)
    /\ batch.cols[1].k = "list"
    /\ shaped = Err(MkError("arrow_cast", ""))

(***************************************************************************)
(* C29: a Nested reorder of a list or map column keeps the declared        *)
(* nullability: the field of the output column has the nullable flag of    *)
(* the input column's field and the rebuilt element / entries field has    *)
(* the flag of the input one; so a nullable list or map column with NULL   *)
(* rows that needs a nested reorder is reshaped, not rejected for nulls in *)
(* a non-nullable field.                                                   *)
(***************************************************************************)
\* the top-level list and map columns that reorder_list / reorder_map rebuild
RebuiltContainers ==
    {i \in 1..Len(planned.reorder) :
        /\ planned.reorder[i].transform.k = "nested"
        /\ i <= Len(batch.cols)
        /\ batch.cols[i].k \in {"list", "map"}}

ArrowRejections == {"arrow_invalid_struct", "arrow_invalid_list", "arrow_invalid_map"}

NullabilityKept ==
    \A i \in RebuiltContainers :
        LET fi == batch.fields[i]
            fo == shaped.val.fields[planned.reorder[i].index + 1]
        IN  /\ fo.nullable = fi.nullable
            /\ fo.type.field.nullable = fi.type.field.nullable
            /\ shaped.val.cols[planned.reorder[i].index + 1].field.nullable
                  = batch.cols[i].field.nullable

C29_OutputFieldKeepsNullable ==
    pc = "done" /\ ~FastPath(planned.reorder) /\ IsOk(shaped) =>
        \A i \in RebuiltContainers :
            shaped.val.fields[planned.reorder[i].index + 1].nullable
                = batch.fields[i].nullable

C29_ElementFieldKeepsNullable ==
    pc = "done" /\ ~FastPath(planned.reorder) /\ IsOk(shaped) =>
        \A i \in RebuiltContainers :
            shaped.val.cols[planned.reorder[i].index + 1].field.nullable
                = batch.cols[i].field.nullable

C29_NullRowsNotRejected ==
    pc = "done" /\ ~FastPath(planned.reorder)
        /\ (\E i \in RebuiltContainers :
                batch.fields[i].nullable /\ null_count(batch.cols[i]) > 0)
        => shaped.err.kind \notin ArrowRejections

C29_NestedReorderKeepsNullability ==
    pc = "done" /\ ~FastPath(planned.reorder) =>
        /\ IsOk(shaped) => NullabilityKept
        /\ (\E i \in RebuiltContainers :
                batch.fields[i].nullable /\ null_count(batch.cols[i]) > 0)
              => shaped.err.kind \notin ArrowRejections

C29_Witness ==
    /\ pc = "done" /\ ~FastPath(planned.reorder)
    /\ \E i \in RebuiltContainers :
           /\ batch.cols[i].k = "map"
           /\ batch.fields[i].nullable
           /\ null_count(batch.cols[i]) > 0
    /\ shaped.err.kind \in ArrowRejections

(***************************************************************************)
(* The multi-threaded reader (examples/read-table-multi-threaded).  The    *)
(* main thread spawns the workers inside thread::scope, drops its own      *)
(* sender of the result channel, sends the scan files into the scan-file   *)
(* channel, drops the scan-file sender and collects the result channel.    *)
(* A worker receives scan files until the scan-file channel is empty and   *)
(* disconnected, and sends the batches of each file into the result        *)
(* channel.  Every unwrap in do_work can panic; a panic drops what the     *)
(* worker owns.  Leaving the scope, normally or with the error of the      *)
(* scan metadata, waits for the workers, and panics if one of them did.    *)
(***************************************************************************)
NumFiles == 2
NumWorkers == 2
MaxBatches == 1

Files == 1..NumFiles
Workers == 1..NumWorkers

others == <<pc, requested, parquet, planned, batch, shaped, final, nb, answer>>

WorkerGone(w) == reader.w[w].pc \in {"exited", "panicked"}

\* a sender of the result channel is alive
ResultSenderAlive == reader.record_batch_tx \/ \E w \in Workers : ~WorkerGone(w)

InitReader ==
    /\ pc = "reader"
    /\ requested = <<>>
    /\ parquet = <<>>
    /\ planned = NoPlan
    /\ batch = NoBatch
    /\ shaped = Ok(NoBatch)
    /\ final = Ok(NoBatch)
    /\ nb = NoNullRun
    /\ answer = NoAnswer
    /\ reader = [main |-> "spawned",
                 sent |-> 0,
                 scan_file_tx |-> TRUE,
                 scan_files |-> <<>>,
                 record_batch_tx |-> TRUE,
                 record_batches |-> <<>>,
                 w |-> [w \in Workers |-> [pc |-> "recv", file |-> 0, left |-> 0]],
                 taken |-> [f \in Files |-> 0],
                 produced |-> {},
                 batches |-> {}]

\* drop(record_batch_tx)
DropRecordBatchTx ==
    /\ reader.main = "spawned"
    /\ reader' = [reader EXCEPT !.main = "sending", !.record_batch_tx = FALSE]
    /\ UNCHANGED others

\* send_scan_file: scan_tx.send(scan_file)
SendScanFile ==
    /\ reader.main = "sending"
    /\ reader.sent < NumFiles
    /\ reader' = [reader EXCEPT !.sent = @ + 1,
                                !.scan_files = Append(@, reader.sent + 1)]
    /\ UNCHANGED others

\* res? or visit_scan_files(..)? returns the error: the closure ends and
\* drops the scan-file sender it owns
ScanMetadataError ==
    /\ reader.main = "sending"
    /\ reader.sent < NumFiles
    /\ reader' = [reader EXCEPT !.main = "failed", !.scan_file_tx = FALSE]
    /\ UNCHANGED others

\* drop(scan_file_tx)
DropScanFileTx ==
    /\ reader.main = "sending"
    /\ reader.sent = NumFiles
    /\ reader' = [reader EXCEPT !.main = "collecting", !.scan_file_tx = FALSE]
    /\ UNCHANGED others

\* one turn of the loop over record_batch_rx.iter()
Collect ==
    /\ reader.main = "collecting"
    /\ reader.record_batches # <<>>
    /\ reader' = [reader EXCEPT !.record_batches = Tail(@),
                                !.batches = @ \cup {Head(reader.record_batches)}]
    /\ UNCHANGED others

\* record_batch_rx.iter() ends: the channel is empty and has no sender
CollectEnds ==
    /\ reader.main = "collecting"
    /\ reader.record_batches = <<>>
    /\ ~ResultSenderAlive
    /\ reader' = [reader EXCEPT !.main = "printed"]
    /\ UNCHANGED others

\* thread::scope returns once every worker has ended, and panics itself when
\* one of them panicked
LeaveScope ==
    /\ reader.main \in {"printed", "failed"}
    /\ \A w \in Workers : WorkerGone(w)
    /\ reader' = [reader EXCEPT !.main =
                     IF \E w \in Workers : reader.w[w].pc = "panicked"
                     THEN "scope_panicked"
                     ELSE IF @ = "printed" THEN "returned_ok" ELSE "returned_err"]
    /\ UNCHANGED others

\* scan_file_rx.recv() returns a scan file; the parquet reader will yield
\* some number of results for it
WorkerRecv(w) ==
    /\ reader.w[w].pc = "recv"
    /\ reader.scan_files # <<>>
    /\ \E n \in 0..MaxBatches :
          reader' = [reader EXCEPT
                       !.scan_files = Tail(@),
                       !.taken[Head(reader.scan_files)] = @ + 1,
                       !.w[w] = [pc |-> "work", file |-> Head(reader.scan_files),
                                 left |-> n]]
    /\ UNCHANGED others

WorkerExitOnEmpty(w) ==
    /\ reader.w[w].pc = "recv"
    /\ reader.scan_files = <<>>
    /\ reader' = [reader EXCEPT !.w[w].pc = "exited"]
    /\ UNCHANGED others

\* scan_file_rx.recv() returns Err: the sender hung up and nothing is left
WorkerExit(w) ==
    /\ reader.w[w].pc = "recv"
    /\ reader.scan_files = <<>>
    /\ ~reader.scan_file_tx
    /\ reader' = [reader EXCEPT !.w[w].pc = "exited"]
    /\ UNCHANGED others

\* record_batch_tx.send(batch)
WorkerSend(w) ==
    /\ reader.w[w].pc = "work"
    /\ reader.w[w].left > 0
    /\ LET b == <<reader.w[w].file, reader.w[w].left>> IN
       reader' = [reader EXCEPT !.record_batches = Append(@, b),
                                !.produced = @ \cup {b},
                                !.w[w].left = @ - 1]
    /\ UNCHANGED others

\* the results of the file are used up: back to recv
WorkerNextFile(w) ==
    /\ reader.w[w].pc = "work"
    /\ reader.w[w].left = 0
    /\ reader' = [reader EXCEPT !.w[w] = [pc |-> "recv", file |-> 0, left |-> 0]]
    /\ UNCHANGED others

\* an unwrap in do_work panics while the worker has a scan file
WorkerPanic(w) ==
    /\ reader.w[w].pc = "work"
    /\ reader' = [reader EXCEPT !.w[w] = [pc |-> "panicked", file |-> 0, left |-> 0]]
    /\ UNCHANGED others

MainStep ==
    \/ DropRecordBatchTx \/ SendScanFile \/ DropScanFileTx
    \/ Collect \/ CollectEnds \/ LeaveScope

WorkerStep(w) ==
    WorkerRecv(w) \/ WorkerExit(w) \/ WorkerSend(w) \/ WorkerNextFile(w)

NextReader ==
    \/ MainStep
    \/ ScanMetadataError
    \/ \E w \in Workers : WorkerStep(w) \/ WorkerPanic(w)

\* every thread that can take a step is scheduled; errors and panics need not
\* happen
SpecReader ==
    /\ InitReader
    /\ [][NextReader]_vars
    /\ WF_vars(MainStep)
    /\ \A w \in Workers : WF_vars(WorkerStep(w))

(***************************************************************************)
(* C30: every run of the multi-threaded reader terminates.  Once the       *)
(* scan-file sender is dropped, after the last scan file or on an error of *)
(* the scan metadata, every worker leaves its receive loop; no scan file   *)
(* is taken by two workers, and when no worker panics every scan file sent *)
(* is taken by exactly one worker, which sends all its batches.  In a run  *)
(* without scan-metadata error the collection loop ends once the last      *)
(* worker has dropped its result sender, having received every batch sent. *)
(***************************************************************************)
Returned == reader.main \in {"returned_ok", "returned_err", "scope_panicked"}
AllGone == \A w \in Workers : WorkerGone(w)
NoPanic == \A w \in Workers : reader.w[w].pc # "panicked"
SentFiles == 1..reader.sent

TakenAtMostOnce == \A f \in Files : reader.taken[f] <= 1

\* at the end of a run without panic every file sent was taken by one worker
TakenOnceWithoutPanic ==
    Returned /\ NoPanic =>
        /\ \A f \in SentFiles : reader.taken[f] = 1
        /\ \A f \in Files \ SentFiles : reader.taken[f] = 0
        /\ \A w \in Workers : reader.w[w].pc = "exited"

\* the collection loop ends with every batch that was sent
CollectedAll ==
    reader.main \in {"printed", "returned_ok"} =>
        /\ reader.batches = reader.produced
        /\ reader.record_batches = <<>>
        /\ AllGone

====
